---------------------------- MODULE Spec2Model ----------------------------
(***************************************************************************)
(* Submission & grading engine of the school LMS server.                   *)
(*                                                                         *)
(* The relational tables the handlers read and write are the state; every  *)
(* handler is one action of the sequential specification Spec (a request   *)
(* runs to completion), and one action per database statement of the       *)
(* interleaved specification SpecConc (every await is a point where        *)
(* another request may run).                                               *)
(***************************************************************************)
EXTENDS Integers, Sequences, FiniteSets, TLC

(***************************************************************************)
(* Bounds of the model.                                                    *)
(***************************************************************************)
MaxNotifications == 2   \* rows the notifications table may hold
MaxGradebookRows == 2   \* rows the gradebook table may hold
MaxAnswers == 1         \* answers in one submitQuizAnswers request
MaxQuestions == 3       \* quiz questions ever created
MaxQuizAnswers == 2     \* answers in one submitQuizAnswers request of SpecQuiz

(***************************************************************************)
(* SQL NULL, per column type.                                              *)
(***************************************************************************)
Null == -1                \* integer columns (ids, points, percentages >= 0)
NullText == "<null>"      \* text columns
NullChars == << "<null>" >>  \* text columns compared character by character

(***************************************************************************)
(* Users and classes.  Teacher 1 owns class 1, teacher 2 owns class 2.     *)
(***************************************************************************)
Teachers == {1, 2}
Students == {3, 4}

classesTable ==
  { [id |-> 1, teacher_id |-> 1],
    [id |-> 2, teacher_id |-> 2] }

\* the row createAssignment inserts for the owner of the class: teacher_id is
\* the class's teacher, max_points is null when the input gives none, and
\* is_published is true whatever the input says (input.is_published || true)
Assignment(id, classId, maxPoints) ==
  [ id |-> id, class_id |-> classId,
    teacher_id |-> (CHOOSE c \in classesTable : c.id = classId).teacher_id,
    max_points |-> maxPoints,
    is_published |-> TRUE ]

Enrollment(userId, classId) == [ user_id |-> userId, class_id |-> classId ]

(***************************************************************************)
(* Inputs of the requests.                                                 *)
(***************************************************************************)
QuestionIds == {1, 2, 3}       \* 3 resolves to no question

ContentInputs == {"", "a"}
FeedbackInputs == {"", "good"}
ReturnFeedbackInputs == {"good"}
PointsInputs == {1, 7}

\* the answers one submitQuizAnswers request may carry
AnswerChoices ==
  { [ questionId |-> 1, answerText |-> << " ", "4" >> ],
    [ questionId |-> 3, answerText |-> << "5" >> ] }

RECURSIVE SeqsUpTo(_, _)
SeqsUpTo(S, n) ==
  IF n = 0 THEN { << >> }
  ELSE SeqsUpTo(S, n - 1) \cup
       { Append(q, x) : q \in { r \in SeqsUpTo(S, n - 1) : Len(r) = n - 1 }, x \in S }

AnswerInputs == SeqsUpTo(AnswerChoices, MaxAnswers)

VARIABLES
  assignmentsTable,    \* set of assignment rows (updateAssignment alone changes it)
  classEnrollmentsTable, \* set of enrollment rows (likewise)
  submissionsTable,    \* sequence of submission rows, in insertion order
  gradebookTable,      \* sequence of gradebook rows, in insertion order
  notificationsTable,  \* sequence of notification rows, in insertion order
  quizQuestionsTable,  \* set of quiz question rows
  quizQuestionsSeq,    \* the last value the serial of quiz_questions.id gave out
  quizAnswersTable,    \* sequence of quiz answer rows, in insertion order
  scored,              \* history: <<submission id, "graded" or "auto">> for every grading and auto-scoring so far
  gradeEvents,         \* history: <<student, assignment>> pairs graded or excused so far
  procs,               \* the requests in flight of the interleaved specification
  last                 \* the last completed request: its arguments and its outcome

vars == << assignmentsTable, classEnrollmentsTable, submissionsTable, gradebookTable, notificationsTable,
           quizQuestionsTable, quizQuestionsSeq, quizAnswersTable, scored, gradeEvents, procs, last >>

tables == << submissionsTable, gradebookTable, notificationsTable,
             quizQuestionsTable, quizQuestionsSeq, quizAnswersTable >>

(***************************************************************************)
(* Lookups in the fixed tables.                                            *)
(***************************************************************************)
AssignmentsById(aid) == { a \in assignmentsTable : a.id = aid }

AssignmentOf(aid) == CHOOSE a \in assignmentsTable : a.id = aid

\* a lookup that forgets the class: enrolled anywhere counts
EnrollmentsInAnyClass(userId, classId) ==
  { e \in classEnrollmentsTable : e.user_id = userId }

Enrollments(userId, classId) ==
  { e \in classEnrollmentsTable : e.user_id = userId /\ e.class_id = classId }

\* assignmentsTable INNER JOIN classesTable WHERE assignment.id = aid AND class.teacher_id = teacherId
AssignmentOwnedVia(aid, teacherId) ==
  { a \in assignmentsTable :
      /\ a.id = aid
      /\ \E c \in classesTable : c.id = a.class_id /\ c.teacher_id = teacherId }

(***************************************************************************)
(* Row selection; a select returns its rows in table order, and the        *)
(* handlers use the first one.                                             *)
(***************************************************************************)
Rows(t) == { t[i] : i \in 1..Len(t) }

SubmissionIdx(t, aid, studentId) ==
  { i \in 1..Len(t) : t[i].assignment_id = aid /\ t[i].student_id = studentId }

SubmissionIdxById(t, sid) == { i \in 1..Len(t) : t[i].id = sid }

GradebookIdx(t, studentId, aid) ==
  { i \in 1..Len(t) : t[i].student_id = studentId /\ t[i].assignment_id = aid }

FirstIdx(S) == CHOOSE i \in S : \A j \in S : i <= j

\* JavaScript's  x || null  on a nullable string: null, undefined and "" give null
OrNull(text) == IF text = NullText \/ text = "" THEN NullText ELSE text

NoArgs ==
  [ id |-> Null, aid |-> Null, student |-> Null, teacher |-> Null,
    points |-> Null, text |-> NullText, before |-> Null, answers |-> << >>,
    found |-> NullText ]

\* what a completed request leaves to observe: the request, the error it threw
\* ("ok" when it returned) and the row it returned; of a request that threw,
\* only the ids it named are kept.  before: the points the submission held
\* when gradeSubmission read it; answers: the answers given to submitQuizAnswers;
\* found: the gradebook row updateGradebookEntry or excuseAssignment selected
\* ("none", "graded" or "excused")
Outcome(op, args, result, ret) ==
  [ op |-> op, id |-> args.id, aid |-> args.aid, student |-> args.student,
    teacher |-> args.teacher,
    points |-> IF result = "ok" THEN args.points ELSE Null,
    text |-> IF result = "ok" THEN args.text ELSE NullText,
    before |-> IF result = "ok" THEN args.before ELSE Null,
    answers |-> IF result = "ok" THEN args.answers ELSE << >>,
    found |-> IF result = "ok" THEN args.found ELSE NullText,
    result |-> result, ret |-> ret ]

(***************************************************************************)
(* createSubmission(input, studentId)                                      *)
(***************************************************************************)
NewSubmission(t, aid, studentId, content) ==
  [ id |-> Len(t) + 1, assignment_id |-> aid, student_id |-> studentId,
    content |-> OrNull(content), status |-> "submitted", points_earned |-> Null,
    grade_feedback |-> NullText, submitted_at |-> "now", graded_at |-> NullText,
    graded_by |-> Null ]

\* a re-submission that falls back to the column default of status
ResubmittedAsPending(row, content) ==
  [ row EXCEPT !.content = OrNull(content), !.status = "pending",
               !.submitted_at = "now" ]

Resubmitted(row, content) ==
  [ row EXCEPT !.content = OrNull(content), !.status = "submitted",
               !.submitted_at = "now" ]

\* an update branch that inserts a fresh copy of the row instead of updating it
InsertCopyInsteadOfUpdate(t, existingId, content) ==
  LET old == t[CHOOSE i \in 1..Len(t) : t[i].id = existingId]
  IN  Append(t, [ Resubmitted(old, content) EXCEPT !.id = Len(t) + 1 ])

\* the update branch: UPDATE submissions SET ... WHERE id = existing
UpdateSubmissionContent(t, existingId, content) ==
  [ i \in 1..Len(t) |-> IF t[i].id = existingId THEN Resubmitted(t[i], content) ELSE t[i] ]

\* the insert branch
InsertSubmission(t, aid, studentId, content) ==
  Append(t, NewSubmission(t, aid, studentId, content))

createSubmission(aid, content, studentId) ==
  LET args == [ NoArgs EXCEPT !.aid = aid, !.student = studentId, !.text = content ]
      existing == SubmissionIdx(submissionsTable, aid, studentId)
  IN  /\ UNCHANGED << assignmentsTable, classEnrollmentsTable, gradebookTable, notificationsTable, quizQuestionsTable, quizQuestionsSeq,
                      quizAnswersTable, scored, gradeEvents, procs >>
      /\ IF AssignmentsById(aid) = {}
         THEN /\ last' = Outcome("createSubmission", args, "Assignment not found", << >>)
              /\ UNCHANGED submissionsTable
         ELSE IF Enrollments(studentId, AssignmentOf(aid).class_id) = {}
         THEN /\ last' = Outcome("createSubmission", args, "Student not enrolled in class", << >>)
              /\ UNCHANGED submissionsTable
         ELSE IF existing # {}
         THEN LET eid == submissionsTable[FirstIdx(existing)].id
                  t == UpdateSubmissionContent(submissionsTable, eid, content)
              IN  /\ submissionsTable' = t
                  /\ last' = Outcome("createSubmission", args, "ok",
                                     << t[FirstIdx(SubmissionIdxById(t, eid))] >>)
         ELSE LET t == InsertSubmission(submissionsTable, aid, studentId, content)
              IN  /\ submissionsTable' = t
                  /\ last' = Outcome("createSubmission", args, "ok", << t[Len(t)] >>)

(***************************************************************************)
(* Gradebook arithmetic.                                                   *)
(***************************************************************************)
\* assignment.max_points || 100 : null and 0 both give 100
PointsPossible(assignment) ==
  IF assignment.max_points = Null \/ assignment.max_points = 0
  THEN 100 ELSE assignment.max_points

\* Math.floor in place of Math.round
PercentageTruncated(pointsEarned, pointsPossible) ==
  (100 * pointsEarned) \div pointsPossible

\* Math.round((pointsEarned / pointsPossible) * 100) for pointsEarned >= 0:
\* the nearest integer, a tie going up
Percentage(pointsEarned, pointsPossible) ==
  (200 * pointsEarned + pointsPossible) \div (2 * pointsPossible)

LetterGrade(percentage) ==
  IF percentage >= 90 THEN "A"
  ELSE IF percentage >= 80 THEN "B"
  ELSE IF percentage >= 70 THEN "C"
  ELSE IF percentage >= 60 THEN "D"
  ELSE "F"

(***************************************************************************)
(* Notifications.                                                          *)
(***************************************************************************)
NewNotification(t, userId, title, type, assignment) ==
  [ id |-> Len(t) + 1, user_id |-> userId, title |-> title, type |-> type,
    class_id |-> assignment.class_id, assignment_id |-> assignment.id ]

InsertNotification(t, userId, title, type, assignment) ==
  Append(t, NewNotification(t, userId, title, type, assignment))

(***************************************************************************)
(* gradeSubmission(input, teacherId)                                       *)
(***************************************************************************)
Graded(row, points, feedback, teacherId) ==
  [ row EXCEPT !.status = "graded", !.points_earned = points,
               !.grade_feedback = OrNull(feedback), !.graded_at = "now",
               !.graded_by = teacherId ]

\* UPDATE submissions SET status = 'graded', ... WHERE id = sid
UpdateSubmissionGrade(t, sid, points, feedback, teacherId) ==
  [ i \in 1..Len(t) |->
      IF t[i].id = sid THEN Graded(t[i], points, feedback, teacherId) ELSE t[i] ]

\* an update branch that leaves the percentage of the earlier grade
UpdateGradebookPointsOnly(t, existingId, points, pointsPossible) ==
  [ i \in 1..Len(t) |->
      IF t[i].id = existingId
      THEN [ t[i] EXCEPT !.points_earned = points, !.points_possible = pointsPossible ]
      ELSE t[i] ]

\* the update branch: UPDATE gradebook SET points_earned, points_possible,
\* percentage WHERE id = existingId
UpdateGradebookFromGrade(t, existingId, points, pointsPossible) ==
  [ i \in 1..Len(t) |->
      IF t[i].id = existingId
      THEN [ t[i] EXCEPT !.points_earned = points,
                         !.points_possible = pointsPossible,
                         !.percentage = Percentage(points, pointsPossible) ]
      ELSE t[i] ]

\* the insert branch: letter_grade and is_excused take the column defaults
InsertGradebookFromGrade(t, studentId, assignment, points, pointsPossible) ==
  Append(t, [ id |-> Len(t) + 1, student_id |-> studentId,
              class_id |-> assignment.class_id, assignment_id |-> assignment.id,
              points_earned |-> points, points_possible |-> pointsPossible,
              percentage |-> Percentage(points, pointsPossible),
              letter_grade |-> NullText, is_excused |-> FALSE ])

\* a gradebook step that inserts whatever the select returned
AlwaysInsertGradebookFromGrade(t, existing, studentId, assignment, points) ==
  Append(t, [ id |-> Len(t) + 1, student_id |-> studentId,
              class_id |-> assignment.class_id, assignment_id |-> assignment.id,
              points_earned |-> points,
              points_possible |-> IF assignment.max_points = Null THEN 100
                                  ELSE assignment.max_points,
              percentage |-> (200 * points + 100) \div 200,
              letter_grade |-> NullText, is_excused |-> FALSE ])

\* the gradebook step of gradeSubmission, given the rows its select returned
UpsertGradebookFromGrade(t, existing, studentId, assignment, points) ==
  IF existing # {}
  THEN UpdateGradebookFromGrade(t, t[FirstIdx(existing)].id, points, PointsPossible(assignment))
  ELSE InsertGradebookFromGrade(t, studentId, assignment, points, PointsPossible(assignment))

\* an ownership check that lets every teacher through
AnyTeacherIsOwner(assignment, teacherId) == teacherId \in Teachers

\* the teacher the handlers of submissions and quiz questions accept
IsAssignmentOwner(assignment, teacherId) == assignment.teacher_id = teacherId

gradeSubmission(sid, points, feedback, teacherId) ==
  LET args == [ NoArgs EXCEPT !.id = sid, !.points = points, !.text = feedback,
                              !.teacher = teacherId ]
      found == SubmissionIdxById(submissionsTable, sid)
  IN  /\ UNCHANGED << assignmentsTable, classEnrollmentsTable, quizQuestionsTable, quizQuestionsSeq, quizAnswersTable, procs >>
      /\ IF found = {}
         THEN /\ last' = Outcome("gradeSubmission", args, "Submission not found", << >>)
              /\ UNCHANGED << submissionsTable, gradebookTable, notificationsTable,
                              scored, gradeEvents >>
         ELSE LET submission == submissionsTable[FirstIdx(found)]
                  assignment == AssignmentOf(submission.assignment_id)
                  existing == GradebookIdx(gradebookTable, submission.student_id, assignment.id)
                  t == UpdateSubmissionGrade(submissionsTable, sid, points, feedback, teacherId)
              IN  IF ~IsAssignmentOwner(assignment, teacherId)
                  THEN /\ last' = Outcome("gradeSubmission", args,
                                          "Teacher not authorized to grade this submission", << >>)
                       /\ UNCHANGED << submissionsTable, gradebookTable,
                                       notificationsTable, scored, gradeEvents >>
                  ELSE /\ Len(notificationsTable) < MaxNotifications
                       /\ existing # {} \/ Len(gradebookTable) < MaxGradebookRows
                       /\ submissionsTable' = t
                       /\ gradebookTable' =
                            UpsertGradebookFromGrade(gradebookTable, existing,
                                                     submission.student_id, assignment, points)
                       /\ notificationsTable' =
                            InsertNotification(notificationsTable, submission.student_id,
                                               "Assignment Graded", "grade_received", assignment)
                       /\ scored' = scored \cup { << sid, "graded" >> }
                       /\ gradeEvents' = gradeEvents \cup
                                           { << submission.student_id, assignment.id >> }
                       /\ last' = Outcome("gradeSubmission",
                                          [ args EXCEPT !.before = submission.points_earned ],
                                          "ok", << t[FirstIdx(SubmissionIdxById(t, sid))] >>)

(***************************************************************************)
(* returnSubmissionForRevision(submissionId, feedback, teacherId)          *)
(***************************************************************************)
\* a return that also clears the points
ReturnedWithoutPoints(row, feedback, teacherId) ==
  [ row EXCEPT !.status = "returned", !.grade_feedback = feedback,
               !.graded_by = teacherId, !.points_earned = Null ]

Returned(row, feedback, teacherId) ==
  [ row EXCEPT !.status = "returned", !.grade_feedback = feedback,
               !.graded_by = teacherId ]

\* a return that changes the status and the grader but drops the feedback
UpdateSubmissionReturnNoFeedback(t, sid, feedback, teacherId) ==
  [ i \in 1..Len(t) |->
      IF t[i].id = sid
      THEN [ t[i] EXCEPT !.status = "returned", !.graded_by = teacherId ]
      ELSE t[i] ]

UpdateSubmissionReturn(t, sid, feedback, teacherId) ==
  [ i \in 1..Len(t) |->
      IF t[i].id = sid THEN Returned(t[i], feedback, teacherId) ELSE t[i] ]

returnSubmissionForRevision(sid, feedback, teacherId) ==
  LET args == [ NoArgs EXCEPT !.id = sid, !.text = feedback, !.teacher = teacherId ]
      found == SubmissionIdxById(submissionsTable, sid)
  IN  /\ UNCHANGED << assignmentsTable, classEnrollmentsTable, gradebookTable, quizQuestionsTable, quizQuestionsSeq, quizAnswersTable,
                      scored, gradeEvents, procs >>
      /\ IF found = {}
         THEN /\ last' = Outcome("returnSubmissionForRevision", args,
                                 "Submission not found", << >>)
              /\ UNCHANGED << submissionsTable, notificationsTable >>
         ELSE LET submission == submissionsTable[FirstIdx(found)]
                  assignment == AssignmentOf(submission.assignment_id)
                  t == UpdateSubmissionReturn(submissionsTable, sid, feedback, teacherId)
              IN  IF ~IsAssignmentOwner(assignment, teacherId)
                  THEN /\ last' = Outcome("returnSubmissionForRevision", args,
                                          "Teacher not authorized to return this submission", << >>)
                       /\ UNCHANGED << submissionsTable, notificationsTable >>
                  ELSE /\ Len(notificationsTable) < MaxNotifications
                       /\ submissionsTable' = t
                       /\ notificationsTable' =
                            InsertNotification(notificationsTable, submission.student_id,
                                               "Submission Returned", "comment_added", assignment)
                       /\ last' = Outcome("returnSubmissionForRevision", args, "ok",
                                          << t[FirstIdx(SubmissionIdxById(t, sid))] >>)

(***************************************************************************)
(* Quiz scoring.  Answer texts and keys are sequences of characters.       *)
(***************************************************************************)
Whitespace == { " ", "\t", "\n" }

\* String.prototype.toLowerCase, character by character
LowerChar(c) ==
  CASE c = "A" -> "a"
    [] c = "B" -> "b"
    [] c = "T" -> "t"
    [] OTHER -> c

ToLowerCase(text) == [ i \in 1..Len(text) |-> LowerChar(text[i]) ]

\* String.prototype.trim: drops the leading and the trailing whitespace
Trim(text) ==
  LET keep == { i \in 1..Len(text) : text[i] \notin Whitespace }
  IN  IF keep = {} THEN << >>
      ELSE LET lo == CHOOSE i \in keep : \A j \in keep : i <= j
               hi == CHOOSE i \in keep : \A j \in keep : j <= i
           IN  SubSeq(text, lo, hi)

Normalize(text) == Trim(ToLowerCase(text))

QuestionsById(t, qid) == { q \in t : q.id = qid }

\* questionData.correct_answer && questionData.question_type !== 'essay'
IsAutoScored(question) ==
  /\ question.correct_answer # NullChars
  /\ question.correct_answer # << >>
  /\ question.question_type # "essay"

\* a comparison of the texts as they stand
IsCorrectExact(question, answerText) ==
  IsAutoScored(question) /\ answerText = question.correct_answer

IsCorrect(question, answerText) ==
  IsAutoScored(question) /\ Normalize(answerText) = Normalize(question.correct_answer)

\* a score that pays every answer matching a key, the essay's too
AnswerPointsEssayToo(question, answerText) ==
  IF /\ question.correct_answer # NullChars
     /\ Normalize(answerText) = Normalize(question.correct_answer)
  THEN question.points ELSE 0

AnswerPoints(question, answerText) ==
  IF IsCorrect(question, answerText) THEN question.points ELSE 0

\* the row submitQuizAnswers inserts for one answer
NewQuizAnswer(sid, question, answerText) ==
  [ submission_id |-> sid, question_id |-> question.id, answer_text |-> answerText,
    is_correct |-> IF question.question_type = "essay" THEN NullText
                   ELSE IF IsCorrect(question, answerText) THEN "true" ELSE "false",
    points_earned |-> AnswerPoints(question, answerText) ]

\* a loop that deletes nothing before it inserts
KeepQuizAnswers(t, sid, qid) == t

\* DELETE FROM quiz_answers WHERE submission_id = sid AND question_id = qid
DeleteQuizAnswers(t, sid, qid) ==
  SelectSeq(t, LAMBDA r : ~(r.submission_id = sid /\ r.question_id = qid))

RECURSIVE ProcessAnswers(_, _, _, _, _)
\* the loop of submitQuizAnswers: the answers table and the total it ends with
ProcessAnswers(answers, questions, t, sid, total) ==
  IF answers = << >> THEN [ table |-> t, total |-> total ]
  ELSE LET answer == Head(answers)
           question == QuestionsById(questions, answer.questionId)
       IN  IF question = {}
           THEN ProcessAnswers(Tail(answers), questions, t, sid, total)
           ELSE LET questionData == CHOOSE q \in question : TRUE
                IN  ProcessAnswers(Tail(answers), questions,
                      Append(DeleteQuizAnswers(t, sid, answer.questionId),
                             NewQuizAnswer(sid, questionData, answer.answerText)),
                      sid, total + AnswerPoints(questionData, answer.answerText))

AutoScored(row, total) ==
  [ row EXCEPT !.points_earned = total, !.status = "submitted", !.submitted_at = "now" ]

UpdateSubmissionScore(t, sid, total) ==
  [ i \in 1..Len(t) |-> IF t[i].id = sid THEN AutoScored(t[i], total) ELSE t[i] ]

submitQuizAnswers(sid, answers) ==
  LET args == [ NoArgs EXCEPT !.id = sid, !.answers = answers ]
      processed == ProcessAnswers(answers, quizQuestionsTable, quizAnswersTable, sid, 0)
  IN  /\ UNCHANGED << assignmentsTable, classEnrollmentsTable, gradebookTable, notificationsTable, quizQuestionsTable, quizQuestionsSeq,
                      gradeEvents, procs >>
      /\ IF SubmissionIdxById(submissionsTable, sid) = {}
         THEN /\ last' = Outcome("submitQuizAnswers", args, "Submission not found", << >>)
              /\ UNCHANGED << submissionsTable, quizAnswersTable, scored >>
         ELSE /\ quizAnswersTable' = processed.table
              /\ submissionsTable' =
                   UpdateSubmissionScore(submissionsTable, sid, processed.total)
              /\ scored' = scored \cup { << sid, "auto" >> }
              /\ last' = Outcome("submitQuizAnswers",
                                 [ args EXCEPT !.points = processed.total ], "ok", << >>)

(***************************************************************************)
(* deleteQuizQuestion(questionId, teacherId)                               *)
(***************************************************************************)
\* DELETE the question, then order_index - 1 for the later ones of the assignment
DeleteAndReorder(t, question) ==
  { IF q.assignment_id = question.assignment_id /\ q.order_index > question.order_index
    THEN [ q EXCEPT !.order_index = q.order_index - 1 ]
    ELSE q : q \in { r \in t : r.id # question.id } }

\* quiz_answers.question_id references quiz_questions.id with no ON DELETE
\* action: the DELETE of a question that has answers is rejected by the store
IsReferenced(answers, qid) == \E i \in 1..Len(answers) : answers[i].question_id = qid

deleteQuizQuestion(qid, teacherId) ==
  LET args == [ NoArgs EXCEPT !.id = qid, !.teacher = teacherId ]
      found == QuestionsById(quizQuestionsTable, qid)
  IN  /\ UNCHANGED << assignmentsTable, classEnrollmentsTable, submissionsTable, gradebookTable, notificationsTable,
                      quizAnswersTable, quizQuestionsSeq, scored, gradeEvents, procs >>
      /\ IF found = {}
         THEN /\ last' = Outcome("deleteQuizQuestion", args, "Quiz question not found", << >>)
              /\ UNCHANGED quizQuestionsTable
         ELSE LET question == CHOOSE q \in found : TRUE
              IN  IF ~IsAssignmentOwner(AssignmentOf(question.assignment_id), teacherId)
                  THEN /\ last' = Outcome("deleteQuizQuestion", args,
                                          "Access denied - not assignment owner", << >>)
                       /\ UNCHANGED quizQuestionsTable
                  ELSE IF IsReferenced(quizAnswersTable, qid)
                  THEN /\ last' = Outcome("deleteQuizQuestion", args,
                                          "violates foreign key constraint", << >>)
                       /\ UNCHANGED quizQuestionsTable
                  ELSE /\ quizQuestionsTable' = DeleteAndReorder(quizQuestionsTable, question)
                       /\ last' = Outcome("deleteQuizQuestion", args, "ok", << >>)

(***************************************************************************)
(* updateGradebookEntry(studentId, assignmentId, pointsEarned, teacherId)  *)
(***************************************************************************)
\* the update branch: points_possible is not among the columns it sets
UpdateGradebookEntryRows(t, studentId, aid, points, pointsPossible) ==
  [ i \in 1..Len(t) |->
      IF t[i].student_id = studentId /\ t[i].assignment_id = aid
      THEN [ t[i] EXCEPT !.points_earned = points,
                         !.percentage = Percentage(points, pointsPossible),
                         !.letter_grade = LetterGrade(Percentage(points, pointsPossible)),
                         !.is_excused = FALSE ]
      ELSE t[i] ]

InsertGradebookEntry(t, studentId, assignment, points, pointsPossible) ==
  Append(t, [ id |-> Len(t) + 1, student_id |-> studentId,
              class_id |-> assignment.class_id, assignment_id |-> assignment.id,
              points_earned |-> points, points_possible |-> pointsPossible,
              percentage |-> Percentage(points, pointsPossible),
              letter_grade |-> LetterGrade(Percentage(points, pointsPossible)),
              is_excused |-> FALSE ])

\* what the select of the existing entry returned
EntryFound(t, existing) ==
  IF existing = {} THEN "none"
  ELSE IF t[FirstIdx(existing)].is_excused THEN "excused" ELSE "graded"

\* { ...result, percentage: result.percentage || null } : 0 is returned as null
ReturnedEntry(row) ==
  [ row EXCEPT !.percentage = IF row.percentage = 0 THEN Null ELSE row.percentage ]

updateGradebookEntry(studentId, aid, points, teacherId) ==
  LET args == [ NoArgs EXCEPT !.student = studentId, !.aid = aid, !.points = points,
                              !.teacher = teacherId ]
      owned == AssignmentOwnedVia(aid, teacherId)
      existing == GradebookIdx(gradebookTable, studentId, aid)
  IN  /\ UNCHANGED << assignmentsTable, classEnrollmentsTable, submissionsTable, notificationsTable, quizQuestionsTable, quizQuestionsSeq,
                      quizAnswersTable, scored, procs >>
      /\ IF owned = {}
         THEN /\ last' = Outcome("updateGradebookEntry", args,
                                 "Assignment not found or access denied", << >>)
              /\ UNCHANGED << gradebookTable, gradeEvents >>
         ELSE LET assignment == CHOOSE a \in owned : TRUE
                  t == IF existing # {}
                       THEN UpdateGradebookEntryRows(gradebookTable, studentId, aid, points,
                                                     PointsPossible(assignment))
                       ELSE InsertGradebookEntry(gradebookTable, studentId, assignment, points,
                                                 PointsPossible(assignment))
              IN  /\ existing # {} \/ Len(gradebookTable) < MaxGradebookRows
                  /\ gradebookTable' = t
                  /\ gradeEvents' = gradeEvents \cup { << studentId, aid >> }
                  /\ last' = Outcome("updateGradebookEntry",
                                     [ args EXCEPT !.found = EntryFound(gradebookTable, existing) ],
                                     "ok",
                                     << ReturnedEntry(t[FirstIdx(GradebookIdx(t, studentId, aid))]) >>)

(***************************************************************************)
(* excuseAssignment(studentId, assignmentId, teacherId)                    *)
(***************************************************************************)
\* an excusal that flags the row and keeps its grade
ExcuseFlagOnly(t, studentId, aid) ==
  [ i \in 1..Len(t) |->
      IF t[i].student_id = studentId /\ t[i].assignment_id = aid
      THEN [ t[i] EXCEPT !.is_excused = TRUE ]
      ELSE t[i] ]

\* the update branch: UPDATE gradebook SET points_earned = null, percentage =
\* null, letter_grade = null, is_excused = true WHERE student_id, assignment_id
ExcuseGradebookRows(t, studentId, aid) ==
  [ i \in 1..Len(t) |->
      IF t[i].student_id = studentId /\ t[i].assignment_id = aid
      THEN [ t[i] EXCEPT !.points_earned = Null, !.percentage = Null,
                         !.letter_grade = NullText, !.is_excused = TRUE ]
      ELSE t[i] ]

InsertExcusedEntry(t, studentId, assignment, pointsPossible) ==
  Append(t, [ id |-> Len(t) + 1, student_id |-> studentId,
              class_id |-> assignment.class_id, assignment_id |-> assignment.id,
              points_earned |-> Null, points_possible |-> pointsPossible,
              percentage |-> Null, letter_grade |-> NullText, is_excused |-> TRUE ])

excuseAssignment(studentId, aid, teacherId) ==
  LET args == [ NoArgs EXCEPT !.student = studentId, !.aid = aid, !.teacher = teacherId ]
      owned == AssignmentOwnedVia(aid, teacherId)
      existing == GradebookIdx(gradebookTable, studentId, aid)
  IN  /\ UNCHANGED << assignmentsTable, classEnrollmentsTable, submissionsTable, notificationsTable, quizQuestionsTable, quizQuestionsSeq,
                      quizAnswersTable, scored, procs >>
      /\ IF owned = {}
         THEN /\ last' = Outcome("excuseAssignment", args,
                                 "Assignment not found or access denied", << >>)
              /\ UNCHANGED << gradebookTable, gradeEvents >>
         ELSE LET assignment == CHOOSE a \in owned : TRUE
                  t == IF existing # {}
                       THEN ExcuseGradebookRows(gradebookTable, studentId, aid)
                       ELSE InsertExcusedEntry(gradebookTable, studentId, assignment,
                                               PointsPossible(assignment))
              IN  /\ existing # {} \/ Len(gradebookTable) < MaxGradebookRows
                  /\ gradebookTable' = t
                  /\ gradeEvents' = gradeEvents \cup { << studentId, aid >> }
                  /\ last' = Outcome("excuseAssignment",
                                     [ args EXCEPT !.found = EntryFound(gradebookTable, existing) ],
                                     "ok",
                                     << ReturnedEntry(t[FirstIdx(GradebookIdx(t, studentId, aid))]) >>)

(***************************************************************************)
(* Quiz questions as createQuizQuestion inserts them.                      *)
(***************************************************************************)
Question(id, aid, type, key, points, orderIndex) ==
  [ id |-> id, assignment_id |-> aid, question_type |-> type,
    correct_answer |-> key, points |-> points, order_index |-> orderIndex ]

NoRequest == Outcome("none", NoArgs, "ok", << >>)

(***************************************************************************)
(* Spec: the life of one student's submission and of the gradebook rows of *)
(* its assignment.  One assignment of teacher 1, with or without           *)
(* max_points; student 3 is enrolled; every request names rows that exist  *)
(* and comes from the owner.                                               *)
(***************************************************************************)
Init ==
  /\ \E m \in {Null, 8} : assignmentsTable = { Assignment(1, 1, m) }
  /\ classEnrollmentsTable = { Enrollment(3, 1) }
  /\ submissionsTable = << >>
  /\ gradebookTable = << >>
  /\ notificationsTable = << >>
  /\ quizQuestionsTable =
       { Question(1, 1, "multiple_choice", << "4" >>, 2, 1),
         Question(2, 1, "essay", NullChars, 5, 2) }
  /\ quizQuestionsSeq = 2
  /\ quizAnswersTable = << >>
  /\ scored = {}
  /\ gradeEvents = {}
  /\ procs = << >>
  /\ last = NoRequest

Next ==
  \/ \E c \in ContentInputs :
        createSubmission(1, c, 3)
  \/ \E p \in PointsInputs, f \in FeedbackInputs :
        gradeSubmission(1, p, f, 1)
  \/ \E f \in ReturnFeedbackInputs :
        returnSubmissionForRevision(1, f, 1)
  \/ \E answers \in AnswerInputs :
        submitQuizAnswers(1, answers)
  \/ \E s \in Students, p \in PointsInputs :
        updateGradebookEntry(s, 1, p, 1)
  \/ \E s \in Students :
        excuseAssignment(s, 1, 1)

Spec == Init /\ [][Next]_vars

(***************************************************************************)
(* SpecSubmit: createSubmission alone, over two assignments, two students  *)
(* (student 4 is not enrolled in class 2) and an assignment id that does   *)
(* not resolve.                                                            *)
(***************************************************************************)
SubmitAssignmentIds == {1, 2, 3}
SubmitContentInputs == {NullText, "", "a", "b"}

InitSubmit ==
  /\ assignmentsTable = { Assignment(1, 1, Null), Assignment(2, 2, 8) }
  /\ classEnrollmentsTable = { Enrollment(3, 1), Enrollment(3, 2), Enrollment(4, 1) }
  /\ submissionsTable = << >>
  /\ gradebookTable = << >>
  /\ notificationsTable = << >>
  /\ quizQuestionsTable = {}
  /\ quizQuestionsSeq = 0
  /\ quizAnswersTable = << >>
  /\ scored = {}
  /\ gradeEvents = {}
  /\ procs = << >>
  /\ last = NoRequest

NextSubmit ==
  \E aid \in SubmitAssignmentIds, c \in SubmitContentInputs, s \in Students :
     createSubmission(aid, c, s)

SpecSubmit == InitSubmit /\ [][NextSubmit]_vars

(***************************************************************************)
(* SpecAuth: the teacher-gated requests, from either teacher, on an        *)
(* assignment of class 1 or of class 2 and on ids that do not resolve.     *)
(***************************************************************************)
AuthAssignmentIds == {1, 2}    \* 2 resolves to no assignment
AuthSubmissionIds == {1, 2}    \* 2 resolves to no submission

InitAuth ==
  /\ \E c \in {1, 2} :
        /\ assignmentsTable = { Assignment(1, c, Null) }
        /\ classEnrollmentsTable = { Enrollment(3, c) }
  /\ submissionsTable = << >>
  /\ gradebookTable = << >>
  /\ notificationsTable = << >>
  /\ quizQuestionsTable =
       { Question(1, 1, "multiple_choice", << "4" >>, 2, 1),
         Question(2, 1, "essay", NullChars, 5, 2) }
  /\ quizQuestionsSeq = 2
  /\ quizAnswersTable = << >>
  /\ scored = {}
  /\ gradeEvents = {}
  /\ procs = << >>
  /\ last = NoRequest

NextAuth ==
  \/ createSubmission(1, "a", 3)
  \/ \E sid \in AuthSubmissionIds, t \in Teachers :
        gradeSubmission(sid, 7, "good", t)
  \/ \E sid \in AuthSubmissionIds, t \in Teachers :
        returnSubmissionForRevision(sid, "good", t)
  \/ \E qid \in QuestionIds, t \in Teachers :
        deleteQuizQuestion(qid, t)
  \/ \E aid \in AuthAssignmentIds, t \in Teachers :
        updateGradebookEntry(3, aid, 7, t)
  \/ \E aid \in AuthAssignmentIds, t \in Teachers :
        excuseAssignment(3, aid, t)

SpecAuth == InitAuth /\ [][NextAuth]_vars

(***************************************************************************)
(* SpecConc: two request handlers running at once.  Each handler is cut at *)
(* its awaits, one step per statement sent to the database; the selects on *)
(* the assignments, classes and enrollments, which no step here writes,    *)
(* are taken together with the select that follows them.  No table has a   *)
(* unique constraint on (assignment_id, student_id) and no handler opens a *)
(* transaction, so the steps of the two handlers interleave freely.        *)
(* Rows are never deleted from submissions or gradebook, so a row read at  *)
(* position i is still the row at position i when the handler writes.      *)
(***************************************************************************)
ProcIds == {1, 2}

Idle == [ pc |-> "idle", args |-> NoArgs, target |-> << Null, Null >>,
          existing |-> {}, ret |-> << >> ]

\* handler p moves to its next statement, holding what it has read so far
Await(p, pc, args, target, existing, ret) ==
  procs' = [ procs EXCEPT ![p] = [ pc |-> pc, args |-> args, target |-> target,
                                   existing |-> existing, ret |-> ret ] ]

Return(p) == procs' = [ procs EXCEPT ![p] = Idle ]

\* gradeSubmission handlers between their first select and their notification
GradingInFlight ==
  { q \in ProcIds : procs[q].pc \in { "gradeSubmissionUpdate", "gradeSubmissionSelectGradebook",
                                      "gradeSubmissionWriteGradebook", "gradeSubmissionNotify" } }

\* createSubmission up to and including its select of the existing submissions
createSubmissionSelect(p, aid, content, studentId) ==
  LET args == [ NoArgs EXCEPT !.aid = aid, !.student = studentId, !.text = content ]
  IN  /\ procs[p].pc = "idle"
      /\ UNCHANGED << assignmentsTable, classEnrollmentsTable, tables, scored, gradeEvents >>
      /\ IF AssignmentsById(aid) = {}
         THEN /\ last' = Outcome("createSubmission", args, "Assignment not found", << >>)
              /\ UNCHANGED procs
         ELSE IF Enrollments(studentId, AssignmentOf(aid).class_id) = {}
         THEN /\ last' = Outcome("createSubmission", args, "Student not enrolled in class", << >>)
              /\ UNCHANGED procs
         ELSE /\ Await(p, "createSubmissionWrite", args, << studentId, aid >>,
                       SubmissionIdx(submissionsTable, aid, studentId), << >>)
              /\ UNCHANGED last

\* createSubmission's update of the row it read, or its insert when it read none
createSubmissionWrite(p) ==
  LET r == procs[p]
      t == IF r.existing # {}
           THEN UpdateSubmissionContent(submissionsTable,
                                        submissionsTable[FirstIdx(r.existing)].id, r.args.text)
           ELSE InsertSubmission(submissionsTable, r.args.aid, r.args.student, r.args.text)
      row == IF r.existing # {} THEN t[FirstIdx(r.existing)] ELSE t[Len(t)]
  IN  /\ r.pc = "createSubmissionWrite"
      /\ submissionsTable' = t
      /\ last' = Outcome("createSubmission", r.args, "ok", << row >>)
      /\ Return(p)
      /\ UNCHANGED << assignmentsTable, classEnrollmentsTable, gradebookTable, notificationsTable,
                      quizQuestionsTable, quizQuestionsSeq, quizAnswersTable, scored, gradeEvents >>

\* gradeSubmission's select of the submission joined with its assignment, and
\* the ownership check
gradeSubmissionSelect(p, sid, points, feedback, teacherId) ==
  LET args == [ NoArgs EXCEPT !.id = sid, !.points = points, !.text = feedback,
                              !.teacher = teacherId ]
      found == SubmissionIdxById(submissionsTable, sid)
  IN  /\ procs[p].pc = "idle"
      /\ UNCHANGED << assignmentsTable, classEnrollmentsTable, tables, scored, gradeEvents >>
      /\ IF found = {}
         THEN /\ last' = Outcome("gradeSubmission", args, "Submission not found", << >>)
              /\ UNCHANGED procs
         ELSE LET submission == submissionsTable[FirstIdx(found)]
                  assignment == AssignmentOf(submission.assignment_id)
              IN  IF ~IsAssignmentOwner(assignment, teacherId)
                  THEN /\ last' = Outcome("gradeSubmission", args,
                                          "Teacher not authorized to grade this submission", << >>)
                       /\ UNCHANGED procs
                  ELSE /\ Len(notificationsTable) + Cardinality(GradingInFlight) < MaxNotifications
                       /\ Await(p, "gradeSubmissionUpdate",
                                [ args EXCEPT !.before = submission.points_earned ],
                                << submission.student_id, assignment.id >>, {}, << >>)
                       /\ UNCHANGED last

\* UPDATE submissions SET status = 'graded', ... RETURNING
gradeSubmissionUpdate(p) ==
  LET r == procs[p]
      t == UpdateSubmissionGrade(submissionsTable, r.args.id, r.args.points, r.args.text,
                                 r.args.teacher)
  IN  /\ r.pc = "gradeSubmissionUpdate"
      /\ submissionsTable' = t
      /\ scored' = scored \cup { << r.args.id, "graded" >> }
      /\ Await(p, "gradeSubmissionSelectGradebook", r.args, r.target, {},
               << t[FirstIdx(SubmissionIdxById(t, r.args.id))] >>)
      /\ UNCHANGED << assignmentsTable, classEnrollmentsTable, gradebookTable, notificationsTable,
                      quizQuestionsTable, quizQuestionsSeq, quizAnswersTable, gradeEvents, last >>

\* SELECT FROM gradebook WHERE student_id = ... AND assignment_id = ...
gradeSubmissionSelectGradebook(p) ==
  LET r == procs[p]
  IN  /\ r.pc = "gradeSubmissionSelectGradebook"
      /\ Await(p, "gradeSubmissionWriteGradebook", r.args, r.target,
               GradebookIdx(gradebookTable, r.target[1], r.target[2]), r.ret)
      /\ UNCHANGED << assignmentsTable, classEnrollmentsTable, tables, scored, gradeEvents, last >>

\* the update of the gradebook row it read, or the insert when it read none
gradeSubmissionWriteGradebook(p) ==
  LET r == procs[p]
  IN  /\ r.pc = "gradeSubmissionWriteGradebook"
      /\ gradebookTable' =
           UpsertGradebookFromGrade(gradebookTable, r.existing, r.target[1],
                                    AssignmentOf(r.target[2]), r.args.points)
      /\ gradeEvents' = gradeEvents \cup { r.target }
      /\ Await(p, "gradeSubmissionNotify", r.args, r.target, {}, r.ret)
      /\ UNCHANGED << assignmentsTable, classEnrollmentsTable, submissionsTable, notificationsTable,
                      quizQuestionsTable, quizQuestionsSeq, quizAnswersTable, scored, last >>

\* INSERT INTO notifications, then return the updated submission
gradeSubmissionNotify(p) ==
  LET r == procs[p]
  IN  /\ r.pc = "gradeSubmissionNotify"
      /\ notificationsTable' =
           InsertNotification(notificationsTable, r.target[1], "Assignment Graded",
                              "grade_received", AssignmentOf(r.target[2]))
      /\ last' = Outcome("gradeSubmission", r.args, "ok", r.ret)
      /\ Return(p)
      /\ UNCHANGED << assignmentsTable, classEnrollmentsTable, submissionsTable, gradebookTable,
                      quizQuestionsTable, quizQuestionsSeq, quizAnswersTable, scored, gradeEvents >>

\* updateGradebookEntry up to and including its select of the existing entries
updateGradebookEntrySelect(p, studentId, aid, points, teacherId) ==
  LET args == [ NoArgs EXCEPT !.student = studentId, !.aid = aid, !.points = points,
                              !.teacher = teacherId ]
  IN  /\ procs[p].pc = "idle"
      /\ UNCHANGED << assignmentsTable, classEnrollmentsTable, tables, scored, gradeEvents >>
      /\ IF AssignmentOwnedVia(aid, teacherId) = {}
         THEN /\ last' = Outcome("updateGradebookEntry", args,
                                 "Assignment not found or access denied", << >>)
              /\ UNCHANGED procs
         ELSE /\ Await(p, "updateGradebookEntryWrite", args, << studentId, aid >>,
                       GradebookIdx(gradebookTable, studentId, aid), << >>)
              /\ UNCHANGED last

\* its update of every row of the pair, or its insert when the select read none
updateGradebookEntryWrite(p) ==
  LET r == procs[p]
      assignment == AssignmentOf(r.args.aid)
      t == IF r.existing # {}
           THEN UpdateGradebookEntryRows(gradebookTable, r.args.student, r.args.aid,
                                         r.args.points, PointsPossible(assignment))
           ELSE InsertGradebookEntry(gradebookTable, r.args.student, assignment,
                                     r.args.points, PointsPossible(assignment))
      row == IF r.existing # {}
             THEN t[FirstIdx(GradebookIdx(t, r.args.student, r.args.aid))] ELSE t[Len(t)]
  IN  /\ r.pc = "updateGradebookEntryWrite"
      /\ gradebookTable' = t
      /\ gradeEvents' = gradeEvents \cup { r.target }
      /\ last' = Outcome("updateGradebookEntry", r.args, "ok", << ReturnedEntry(row) >>)
      /\ Return(p)
      /\ UNCHANGED << assignmentsTable, classEnrollmentsTable, submissionsTable, notificationsTable,
                      quizQuestionsTable, quizQuestionsSeq, quizAnswersTable, scored >>

\* excuseAssignment up to and including its select of the existing entries
excuseAssignmentSelect(p, studentId, aid, teacherId) ==
  LET args == [ NoArgs EXCEPT !.student = studentId, !.aid = aid, !.teacher = teacherId ]
  IN  /\ procs[p].pc = "idle"
      /\ UNCHANGED << assignmentsTable, classEnrollmentsTable, tables, scored, gradeEvents >>
      /\ IF AssignmentOwnedVia(aid, teacherId) = {}
         THEN /\ last' = Outcome("excuseAssignment", args,
                                 "Assignment not found or access denied", << >>)
              /\ UNCHANGED procs
         ELSE /\ Await(p, "excuseAssignmentWrite", args, << studentId, aid >>,
                       GradebookIdx(gradebookTable, studentId, aid), << >>)
              /\ UNCHANGED last

\* its update of every row of the pair, or its insert when the select read none
excuseAssignmentWrite(p) ==
  LET r == procs[p]
      assignment == AssignmentOf(r.args.aid)
      t == IF r.existing # {}
           THEN ExcuseGradebookRows(gradebookTable, r.args.student, r.args.aid)
           ELSE InsertExcusedEntry(gradebookTable, r.args.student, assignment,
                                   PointsPossible(assignment))
      row == IF r.existing # {}
             THEN t[FirstIdx(GradebookIdx(t, r.args.student, r.args.aid))] ELSE t[Len(t)]
  IN  /\ r.pc = "excuseAssignmentWrite"
      /\ gradebookTable' = t
      /\ gradeEvents' = gradeEvents \cup { r.target }
      /\ last' = Outcome("excuseAssignment", r.args, "ok", << ReturnedEntry(row) >>)
      /\ Return(p)
      /\ UNCHANGED << assignmentsTable, classEnrollmentsTable, submissionsTable, notificationsTable,
                      quizQuestionsTable, quizQuestionsSeq, quizAnswersTable, scored >>

InitConc ==
  /\ assignmentsTable = { Assignment(1, 1, Null) }
  /\ classEnrollmentsTable = { Enrollment(3, 1) }
  /\ submissionsTable = << >>
  /\ gradebookTable = << >>
  /\ notificationsTable = << >>
  /\ quizQuestionsTable = {}
  /\ quizQuestionsSeq = 0
  /\ quizAnswersTable = << >>
  /\ scored = {}
  /\ gradeEvents = {}
  /\ procs = [ p \in ProcIds |-> Idle ]
  /\ last = NoRequest

NextConc ==
  \E p \in ProcIds :
     \/ createSubmissionSelect(p, 1, "a", 3)
     \/ createSubmissionWrite(p)
     \/ gradeSubmissionSelect(p, 1, 7, "good", 1)
     \/ gradeSubmissionUpdate(p)
     \/ gradeSubmissionSelectGradebook(p)
     \/ gradeSubmissionWriteGradebook(p)
     \/ gradeSubmissionNotify(p)
     \/ updateGradebookEntrySelect(p, 3, 1, 1, 1)
     \/ updateGradebookEntryWrite(p)
     \/ excuseAssignmentSelect(p, 3, 1, 1)
     \/ excuseAssignmentWrite(p)

SpecConc == InitConc /\ [][NextConc]_vars

(***************************************************************************)
(* getPendingSubmissions(teacherId)                                        *)
(***************************************************************************)
\* a filter that forgets the teacher
PendingOfAnyTeacher(t, teacherId) ==
  SelectSeq(t, LAMBDA row : row.status = "submitted" \/ row.status = "pending")

\* submissions INNER JOIN assignments WHERE assignment.teacher_id = teacherId
\* AND (status = 'submitted' OR status = 'pending'), in table order
PendingSubmissions(t, teacherId) ==
  SelectSeq(t, LAMBDA row :
     /\ \E a \in assignmentsTable : a.id = row.assignment_id /\ a.teacher_id = teacherId
     /\ row.status = "submitted" \/ row.status = "pending")

getPendingSubmissions(teacherId) ==
  /\ last' = Outcome("getPendingSubmissions", [ NoArgs EXCEPT !.teacher = teacherId ], "ok",
                     PendingSubmissions(submissionsTable, teacherId))
  /\ UNCHANGED << assignmentsTable, classEnrollmentsTable, tables, scored, gradeEvents, procs >>

(***************************************************************************)
(* SpecPending: the submissions of student 3 to an assignment of teacher 1 *)
(* and to one of teacher 2, graded, returned and resubmitted, and the      *)
(* pending list either teacher reads in between.                           *)
(***************************************************************************)
PendingAssignmentIds == {1, 2}
PendingSubmissionIds == {1, 2}

InitPending ==
  /\ assignmentsTable = { Assignment(1, 1, Null), Assignment(2, 2, 8) }
  /\ classEnrollmentsTable = { Enrollment(3, 1), Enrollment(3, 2) }
  /\ submissionsTable = << >>
  /\ gradebookTable = << >>
  /\ notificationsTable = << >>
  /\ quizQuestionsTable = {}
  /\ quizQuestionsSeq = 0
  /\ quizAnswersTable = << >>
  /\ scored = {}
  /\ gradeEvents = {}
  /\ procs = << >>
  /\ last = NoRequest

NextPending ==
  \/ \E aid \in PendingAssignmentIds : createSubmission(aid, "a", 3)
  \/ \E sid \in PendingSubmissionIds, t \in Teachers : gradeSubmission(sid, 7, "good", t)
  \/ \E sid \in PendingSubmissionIds, t \in Teachers :
        returnSubmissionForRevision(sid, "good", t)
  \/ \E t \in Teachers : getPendingSubmissions(t)

SpecPending == InitPending /\ [][NextPending]_vars

(***************************************************************************)
(* createQuizQuestion(input) and updateQuizQuestion(questionId, input,     *)
(* teacherId)                                                              *)
(***************************************************************************)
\* input.correct_answer || null : null, undefined and "" give null
KeyOrNull(key) == IF key = NullChars \/ key = << >> THEN NullChars ELSE key

\* input.points || 1 : undefined gives 1
PointsOrOne(points) == IF points = Null \/ points = 0 THEN 1 ELSE points

createQuizQuestion(aid, type, key, points, orderIndex) ==
  LET args == [ NoArgs EXCEPT !.aid = aid, !.points = orderIndex ]
      row == Question(quizQuestionsSeq + 1, aid, type, KeyOrNull(key),
                      PointsOrOne(points), orderIndex)
  IN  /\ UNCHANGED << assignmentsTable, classEnrollmentsTable, submissionsTable, gradebookTable,
                      notificationsTable, quizAnswersTable, scored, gradeEvents, procs >>
      /\ IF AssignmentsById(aid) = {}
         THEN /\ last' = Outcome("createQuizQuestion", args, "Assignment not found", << >>)
              /\ UNCHANGED << quizQuestionsTable, quizQuestionsSeq >>
         ELSE /\ quizQuestionsSeq < MaxQuestions
              /\ quizQuestionsSeq' = quizQuestionsSeq + 1
              /\ quizQuestionsTable' = quizQuestionsTable \cup { row }
              /\ last' = Outcome("createQuizQuestion", [ args EXCEPT !.id = row.id ], "ok",
                                 << row >>)

\* a field the input of updateQuizQuestion leaves undefined
UndefinedChars == << "<undefined>" >>

\* the fields of updateData this model follows: correct_answer and order_index,
\* each set when the input gives it (Null and UndefinedChars stand for a field
\* the input leaves undefined); the key is stored as given, "" included
UpdatedQuestion(q, orderIndex, key) ==
  [ q EXCEPT !.order_index = IF orderIndex = Null THEN @ ELSE orderIndex,
             !.correct_answer = IF key = UndefinedChars THEN @ ELSE key ]

UpdateQuizQuestionRows(t, qid, orderIndex, key) ==
  { IF q.id = qid THEN UpdatedQuestion(q, orderIndex, key) ELSE q : q \in t }

updateQuizQuestion(qid, orderIndex, key, teacherId) ==
  LET args == [ NoArgs EXCEPT !.id = qid, !.teacher = teacherId, !.points = orderIndex ]
      found == QuestionsById(quizQuestionsTable, qid)
  IN  /\ UNCHANGED << assignmentsTable, classEnrollmentsTable, submissionsTable, gradebookTable,
                      notificationsTable, quizAnswersTable, quizQuestionsSeq, scored,
                      gradeEvents, procs >>
      /\ IF found = {}
         THEN /\ last' = Outcome("updateQuizQuestion", args, "Quiz question not found", << >>)
              /\ UNCHANGED quizQuestionsTable
         ELSE LET question == CHOOSE q \in found : TRUE
              IN  IF ~IsAssignmentOwner(AssignmentOf(question.assignment_id), teacherId)
                  THEN /\ last' = Outcome("updateQuizQuestion", args,
                                          "Access denied - not assignment owner", << >>)
                       /\ UNCHANGED quizQuestionsTable
                  ELSE /\ quizQuestionsTable' =
                            UpdateQuizQuestionRows(quizQuestionsTable, qid, orderIndex, key)
                       /\ last' = Outcome("updateQuizQuestion", args, "ok",
                                          << UpdatedQuestion(question, orderIndex, key) >>)

(***************************************************************************)
(* SpecQuestions: the quiz questions of an assignment of teacher 1 and of  *)
(* one of teacher 2, created with the order_index the caller gives, moved  *)
(* and deleted; student 3 answers question 1 of assignment 1.              *)
(***************************************************************************)
QuestionAssignmentIds == {1, 2, 3}    \* 3 resolves to no assignment
OrderIndexInputs == {1, 2, 3}
CreatedQuestionIds == 1..MaxQuestions

InitQuestions ==
  /\ assignmentsTable = { Assignment(1, 1, Null), Assignment(2, 2, Null) }
  /\ classEnrollmentsTable = { Enrollment(3, 1) }
  /\ submissionsTable = << >>
  /\ gradebookTable = << >>
  /\ notificationsTable = << >>
  /\ quizQuestionsTable = {}
  /\ quizQuestionsSeq = 0
  /\ quizAnswersTable = << >>
  /\ scored = {}
  /\ gradeEvents = {}
  /\ procs = << >>
  /\ last = NoRequest

NextQuestions ==
  \/ \E aid \in QuestionAssignmentIds, idx \in OrderIndexInputs :
        createQuizQuestion(aid, "multiple_choice", << "4" >>, 2, idx)
  \/ \E qid \in CreatedQuestionIds, idx \in { Null, 1 }, t \in Teachers :
        updateQuizQuestion(qid, idx, UndefinedChars, t)
  \/ \E qid \in CreatedQuestionIds, t \in Teachers :
        deleteQuizQuestion(qid, t)
  \/ createSubmission(1, "a", 3)
  \/ submitQuizAnswers(1, << [ questionId |-> 1, answerText |-> << "4" >> ] >>)

SpecQuestions == InitQuestions /\ [][NextQuestions]_vars

(***************************************************************************)
(* getQuizQuestions(assignmentId, userId)                                  *)
(***************************************************************************)
\* ORDER BY order_index ASC: every order of the rows with non-decreasing
\* order_index; the store is free in the order of rows with equal indices
OrderedByIndex(S) ==
  { f \in [ 1..Cardinality(S) -> S ] :
      /\ \A i, j \in 1..Cardinality(S) : i < j => f[i].order_index <= f[j].order_index
      /\ \A i, j \in 1..Cardinality(S) : f[i] = f[j] => i = j }

\* a mapping that hands the stored keys to every caller
KeysShown(questions) == questions

\* questions.map(question => ({ ...question, correct_answer: null }))
KeysHidden(questions) ==
  [ i \in 1..Len(questions) |-> [ questions[i] EXCEPT !.correct_answer = NullChars ] ]

getQuizQuestions(aid, userId) ==
  LET args == [ NoArgs EXCEPT !.aid = aid, !.student = userId ]
      accessQuery == { a \in assignmentsTable :
                         a.id = aid /\ \E c \in classesTable : c.id = a.class_id }
  IN  /\ UNCHANGED << assignmentsTable, classEnrollmentsTable, tables, scored, gradeEvents, procs >>
      /\ IF accessQuery = {}
         THEN last' = Outcome("getQuizQuestions", args, "Assignment not found", << >>)
         ELSE LET assignment == CHOOSE a \in accessQuery : TRUE
                  isTeacher == assignment.teacher_id = userId
              IN  IF ~isTeacher /\ Enrollments(userId, assignment.class_id) = {}
                  THEN last' = Outcome("getQuizQuestions", args, "Access denied", << >>)
                  ELSE \E questions \in
                            OrderedByIndex({ q \in quizQuestionsTable : q.assignment_id = aid }) :
                          last' = Outcome("getQuizQuestions", args, "ok",
                                          IF isTeacher THEN questions
                                          ELSE KeysHidden(questions))

(***************************************************************************)
(* SpecDeleteConc: two deleteQuizQuestion handlers running at once on the  *)
(* four questions of one assignment, each cut at its awaits (the select    *)
(* with the ownership check, the DELETE, the UPDATE of the later indices), *)
(* and the teacher reading the questions in between.  The questions are    *)
(* the ones createQuizQuestion left with order_index 1 to 4.               *)
(***************************************************************************)
deleteQuizQuestionSelect(p, qid, teacherId) ==
  LET args == [ NoArgs EXCEPT !.id = qid, !.teacher = teacherId ]
      found == QuestionsById(quizQuestionsTable, qid)
  IN  /\ procs[p].pc = "idle"
      /\ UNCHANGED << assignmentsTable, classEnrollmentsTable, tables, scored, gradeEvents >>
      /\ IF found = {}
         THEN /\ last' = Outcome("deleteQuizQuestion", args, "Quiz question not found", << >>)
              /\ UNCHANGED procs
         ELSE LET question == CHOOSE q \in found : TRUE
              IN  IF ~IsAssignmentOwner(AssignmentOf(question.assignment_id), teacherId)
                  THEN /\ last' = Outcome("deleteQuizQuestion", args,
                                          "Access denied - not assignment owner", << >>)
                       /\ UNCHANGED procs
                  ELSE /\ Await(p, "deleteQuizQuestionDelete", args, << Null, Null >>, {},
                                << question >>)
                       /\ UNCHANGED last

\* DELETE FROM quiz_questions WHERE id = questionId
deleteQuizQuestionDelete(p) ==
  LET r == procs[p]
  IN  /\ r.pc = "deleteQuizQuestionDelete"
      /\ UNCHANGED << assignmentsTable, classEnrollmentsTable, submissionsTable, gradebookTable,
                      notificationsTable, quizAnswersTable, quizQuestionsSeq, scored, gradeEvents >>
      /\ IF IsReferenced(quizAnswersTable, r.args.id)
         THEN /\ last' = Outcome("deleteQuizQuestion", r.args,
                                 "violates foreign key constraint", << >>)
              /\ Return(p)
              /\ UNCHANGED quizQuestionsTable
         ELSE /\ quizQuestionsTable' = { q \in quizQuestionsTable : q.id # r.args.id }
              /\ Await(p, "deleteQuizQuestionShift", r.args, r.target, {}, r.ret)
              /\ UNCHANGED last

\* UPDATE quiz_questions SET order_index = order_index - 1 WHERE assignment_id
\* = question.assignment_id AND order_index > question.order_index, with the
\* question as the select read it
deleteQuizQuestionShift(p) ==
  LET r == procs[p]
      question == r.ret[1]
  IN  /\ r.pc = "deleteQuizQuestionShift"
      /\ quizQuestionsTable' =
           { IF q.assignment_id = question.assignment_id /\ q.order_index > question.order_index
             THEN [ q EXCEPT !.order_index = q.order_index - 1 ]
             ELSE q : q \in quizQuestionsTable }
      /\ last' = Outcome("deleteQuizQuestion", r.args, "ok", << >>)
      /\ Return(p)
      /\ UNCHANGED << assignmentsTable, classEnrollmentsTable, submissionsTable, gradebookTable,
                      notificationsTable, quizAnswersTable, quizQuestionsSeq, scored, gradeEvents >>

DeleteConcQuestionIds == 1..4

InitDeleteConc ==
  /\ assignmentsTable = { Assignment(1, 1, Null) }
  /\ classEnrollmentsTable = { Enrollment(3, 1) }
  /\ submissionsTable = << >>
  /\ gradebookTable = << >>
  /\ notificationsTable = << >>
  /\ quizQuestionsTable =
       { Question(i, 1, "multiple_choice", << "4" >>, 2, i) : i \in DeleteConcQuestionIds }
  /\ quizQuestionsSeq = 4
  /\ quizAnswersTable = << >>
  /\ scored = {}
  /\ gradeEvents = {}
  /\ procs = [ p \in ProcIds |-> Idle ]
  /\ last = NoRequest

NextDeleteConc ==
  \/ \E p \in ProcIds, qid \in DeleteConcQuestionIds : deleteQuizQuestionSelect(p, qid, 1)
  \/ \E p \in ProcIds : deleteQuizQuestionDelete(p)
  \/ \E p \in ProcIds : deleteQuizQuestionShift(p)
  \/ getQuizQuestions(1, 1)

SpecDeleteConc == InitDeleteConc /\ [][NextDeleteConc]_vars

(***************************************************************************)
(* SpecQuiz: student 3 (and student 4, once) answering the quiz of         *)
(* assignment 1: a multiple-choice question, an essay question that has a  *)
(* key, and a short-answer question whose key the teacher may replace by   *)
(* the empty string.                                                       *)
(***************************************************************************)
QuizAnswerChoices ==
  { [ questionId |-> 1, answerText |-> << " ", "4", " " >> ],
    [ questionId |-> 1, answerText |-> << "5" >> ],
    [ questionId |-> 2, answerText |-> << "a" >> ],
    [ questionId |-> 3, answerText |-> << "a", "B" >> ],
    [ questionId |-> 3, answerText |-> << " " >> ],
    [ questionId |-> 4, answerText |-> << "4" >> ] }    \* 4 resolves to no question

QuizAnswerInputs == SeqsUpTo(QuizAnswerChoices, MaxQuizAnswers)

InitQuiz ==
  /\ assignmentsTable = { Assignment(1, 1, Null) }
  /\ classEnrollmentsTable = { Enrollment(3, 1), Enrollment(4, 1) }
  /\ submissionsTable = << >>
  /\ gradebookTable = << >>
  /\ notificationsTable = << >>
  /\ quizQuestionsTable =
       { Question(1, 1, "multiple_choice", << "4" >>, 2, 1),
         Question(2, 1, "essay", << "a" >>, 5, 2),
         Question(3, 1, "short_answer", << "A", "b" >>, 3, 3) }
  /\ quizQuestionsSeq = 3
  /\ quizAnswersTable = << >>
  /\ scored = {}
  /\ gradeEvents = {}
  /\ procs = << >>
  /\ last = NoRequest

NextQuiz ==
  \/ \E s \in Students : createSubmission(1, "a", s)
  \/ \E answers \in QuizAnswerInputs : submitQuizAnswers(1, answers)
  \/ submitQuizAnswers(2, << [ questionId |-> 1, answerText |-> << "5" >> ] >>)
  \/ updateQuizQuestion(3, Null, << >>, 1)

SpecQuiz == InitQuiz /\ [][NextQuiz]_vars

(***************************************************************************)
(* getAssignmentById(assignmentId, userId)                                 *)
(***************************************************************************)
getAssignmentById(aid, userId) ==
  LET args == [ NoArgs EXCEPT !.aid = aid, !.student = userId ]
      result == { << a, c >> \in assignmentsTable \X classesTable :
                    a.id = aid /\ c.id = a.class_id }
  IN  /\ UNCHANGED << assignmentsTable, classEnrollmentsTable, tables, scored, gradeEvents, procs >>
      /\ IF result = {}
         THEN last' = Outcome("getAssignmentById", args, "Assignment not found", << >>)
         ELSE LET row == CHOOSE r \in result : TRUE
                  assignmentData == row[1]
                  classData == row[2]
                  isTeacher == classData.teacher_id = userId
                  isEnrolled == ~isTeacher /\ Enrollments(userId, classData.id) # {}
              IN  IF ~isTeacher /\ ~isEnrolled
                  THEN last' = Outcome("getAssignmentById", args, "Access denied to assignment", << >>)
                  ELSE IF ~isTeacher /\ ~assignmentData.is_published
                  THEN last' = Outcome("getAssignmentById", args, "Assignment not available", << >>)
                  ELSE last' = Outcome("getAssignmentById", args, "ok", << assignmentData >>)

(***************************************************************************)
(* updateAssignment(assignmentId, input, teacherId).  input is a partial   *)
(* record: a field it does not carry is undefined and leaves its column    *)
(* alone.  The inputs modelled carry is_published or max_points, never     *)
(* class_id or due_date, so neither the check of the new class nor the     *)
(* calendar event runs.                                                    *)
(***************************************************************************)
\* if (input.X !== undefined) updateValues.X = input.X
UpdatedAssignment(a, input) ==
  [ f \in DOMAIN a |-> IF f \in DOMAIN input THEN input[f] ELSE a[f] ]

\* UPDATE assignments SET ...updateValues WHERE id = aid
UpdateAssignmentRows(t, aid, input) ==
  { IF a.id = aid THEN UpdatedAssignment(a, input) ELSE a : a \in t }

updateAssignment(aid, input, teacherId) ==
  LET args == [ NoArgs EXCEPT !.aid = aid, !.teacher = teacherId ]
      existingAssignment == AssignmentOwnedVia(aid, teacherId)
  IN  /\ UNCHANGED << classEnrollmentsTable, tables, scored, gradeEvents, procs >>
      /\ IF existingAssignment = {}
         THEN /\ UNCHANGED assignmentsTable
              /\ last' = Outcome("updateAssignment", args,
                                 "Assignment not found or access denied", << >>)
         ELSE /\ assignmentsTable' = UpdateAssignmentRows(assignmentsTable, aid, input)
              /\ last' = Outcome("updateAssignment", args, "ok",
                                 << CHOOSE a \in assignmentsTable' : a.id = aid >>)

(***************************************************************************)
(* SpecAccess: who reads an assignment and its quiz questions.  Assignment *)
(* 1 of teacher 1 with a keyed and an essay question; student 3 is         *)
(* enrolled in its class, student 4 and teacher 2 are not; the submission  *)
(* of student 3 goes through its life while the teacher switches the       *)
(* publish flag; assignment id 2 resolves to nothing.                      *)
(***************************************************************************)
AccessAssignmentIds == {1, 2}
AccessUsers == Teachers \cup Students

InitAccess ==
  /\ assignmentsTable = { Assignment(1, 1, Null) }
  /\ classEnrollmentsTable = { Enrollment(3, 1) }
  /\ submissionsTable = << >>
  /\ gradebookTable = << >>
  /\ notificationsTable = << >>
  /\ quizQuestionsTable =
       { Question(1, 1, "multiple_choice", << "4" >>, 2, 1),
         Question(2, 1, "essay", NullChars, 5, 2) }
  /\ quizQuestionsSeq = 2
  /\ quizAnswersTable = << >>
  /\ scored = {}
  /\ gradeEvents = {}
  /\ procs = << >>
  /\ last = NoRequest

NextAccess ==
  \/ createSubmission(1, "a", 3)
  \/ submitQuizAnswers(1, << [ questionId |-> 1, answerText |-> << "4" >> ] >>)
  \/ gradeSubmission(1, 7, "good", 1)
  \/ returnSubmissionForRevision(1, "good", 1)
  \/ \E aid \in AccessAssignmentIds, u \in AccessUsers :
        getQuizQuestions(aid, u)
  \/ \E aid \in AccessAssignmentIds, u \in AccessUsers :
        getAssignmentById(aid, u)
  \/ \E b \in BOOLEAN, t \in Teachers :
        updateAssignment(1, [ is_published |-> b ], t)

SpecAccess == InitAccess /\ [][NextAccess]_vars

(***************************************************************************)
(* SpecGrades: the gradebook row of student 3 under updateGradebookEntry,   *)
(* excuseAssignment and the grading of their submission (student 4 is only *)
(* excused), while the teacher changes the assignment's max_points.  The   *)
(* points asked sit on both sides of every letter-grade threshold and      *)
(* above the points possible.  For the max_points used here (50, 100) the  *)
(* quotient the handler rounds is never within a rounding error of a tie,  *)
(* so Percentage gives what Math.round gives.                              *)
(***************************************************************************)
GradePointsInputs == {45, 59, 60, 79, 80, 89, 90, 150}
MaxPointsInputs == {50, 100}
GradeSubmissionPoints == {45, 150}

InitGrades ==
  /\ assignmentsTable = { Assignment(1, 1, Null) }
  /\ classEnrollmentsTable = { Enrollment(3, 1) }
  /\ submissionsTable = << >>
  /\ gradebookTable = << >>
  /\ notificationsTable = << >>
  /\ quizQuestionsTable = {}
  /\ quizQuestionsSeq = 0
  /\ quizAnswersTable = << >>
  /\ scored = {}
  /\ gradeEvents = {}
  /\ procs = << >>
  /\ last = NoRequest

NextGrades ==
  \/ \E p \in GradePointsInputs :
        updateGradebookEntry(3, 1, p, 1)
  \/ \E s \in Students :
        excuseAssignment(s, 1, 1)
  \/ \E m \in MaxPointsInputs :
        updateAssignment(1, [ max_points |-> m ], 1)
  \/ createSubmission(1, "a", 3)
  \/ \E p \in GradeSubmissionPoints :
        gradeSubmission(1, p, "good", 1)

SpecGrades == InitGrades /\ [][NextGrades]_vars

(***************************************************************************)
(* getClassAverages(classId, teacherId)                                    *)
(***************************************************************************)
RECURSIVE GCD(_, _)
GCD(a, b) == IF b = 0 THEN a ELSE GCD(b, a % b)

\* the rational sum / count in lowest terms: the value avg() gives, which
\* parseFloat reads back
Fraction(sum, count) ==
  LET g == GCD(sum, count)
  IN  [ num |-> sum \div g, den |-> count \div g ]

RECURSIVE SumPercentages(_, _)
SumPercentages(t, S) ==
  IF S = {} THEN 0
  ELSE LET j == CHOOSE x \in S : TRUE
       IN  t[j].percentage + SumPercentages(t, S \ {j})

\* a filter that keeps the excused rows
AveragedRowsWithExcused(t, classId) ==
  { j \in 1..Len(t) : t[j].class_id = classId /\ t[j].percentage # Null }

\* WHERE class_id = classId AND is_excused = false AND percentage IS NOT NULL
AveragedRows(t, classId) ==
  { j \in 1..Len(t) :
      t[j].class_id = classId /\ t[j].is_excused = FALSE /\ t[j].percentage # Null }

\* SELECT assignment_id, avg(percentage) ... GROUP BY assignment_id
ClassAverages(t, classId) ==
  LET rows == AveragedRows(t, classId)
  IN  { [ assignmentId |-> aid,
          average |-> LET group == { j \in rows : t[j].assignment_id = aid }
                      IN  Fraction(SumPercentages(t, group), Cardinality(group)) ] :
        aid \in { t[j].assignment_id : j \in rows } }

\* the groups come back in an order the store chooses
InAnyOrder(S) ==
  { f \in [ 1..Cardinality(S) -> S ] :
      \A i, j \in 1..Cardinality(S) : f[i] = f[j] => i = j }

getClassAverages(classId, teacherId) ==
  LET args == [ NoArgs EXCEPT !.id = classId, !.teacher = teacherId ]
      classCheck == { c \in classesTable : c.id = classId /\ c.teacher_id = teacherId }
  IN  /\ UNCHANGED << assignmentsTable, classEnrollmentsTable, tables, scored, gradeEvents, procs >>
      /\ IF classCheck = {}
         THEN last' = Outcome("getClassAverages", args,
                              "Class not found or access denied", << >>)
         ELSE \E results \in InAnyOrder(ClassAverages(gradebookTable, classId)) :
                 last' = Outcome("getClassAverages", args, "ok", results)

(***************************************************************************)
(* SpecAverages: the averages of class 1 over two assignments.  The        *)
(* gradebook starts with the rows three updateGradebookEntry calls and one *)
(* excuseAssignment call leave: 80, 59 and 90 percent on assignment 1 for  *)
(* students 3, 4 and 5, and an excused row on assignment 2 for student 3.  *)
(* Rows are then graded and excused in place, and the submission of        *)
(* student 3 to assignment 1 is graded, also while the row is excused.     *)
(***************************************************************************)
AverageClassIds == {1, 2}
AverageAssignmentIds == {1, 2}
AveragePointsInputs == {59, 80}

InitAverages ==
  /\ assignmentsTable = { Assignment(1, 1, Null), Assignment(2, 1, Null) }
  /\ classEnrollmentsTable = { Enrollment(3, 1) }
  /\ submissionsTable = << >>
  /\ gradebookTable =
       InsertExcusedEntry(
         InsertGradebookEntry(
           InsertGradebookEntry(
             InsertGradebookEntry(<< >>, 3, Assignment(1, 1, Null), 80, 100),
             4, Assignment(1, 1, Null), 59, 100),
           5, Assignment(1, 1, Null), 90, 100),
         3, Assignment(2, 1, Null), 100)
  /\ notificationsTable = << >>
  /\ quizQuestionsTable = {}
  /\ quizQuestionsSeq = 0
  /\ quizAnswersTable = << >>
  /\ scored = {}
  /\ gradeEvents = { << 3, 1 >>, << 4, 1 >>, << 5, 1 >>, << 3, 2 >> }
  /\ procs = << >>
  /\ last = NoRequest

NextAverages ==
  \/ \E s \in Students, aid \in AverageAssignmentIds, p \in AveragePointsInputs :
        updateGradebookEntry(s, aid, p, 1)
  \/ \E s \in Students, aid \in AverageAssignmentIds :
        excuseAssignment(s, aid, 1)
  \/ createSubmission(1, "a", 3)
  \/ gradeSubmission(1, 45, "good", 1)
  \/ \E c \in AverageClassIds, t \in Teachers :
        getClassAverages(c, t)

SpecAverages == InitAverages /\ [][NextAverages]_vars

(***************************************************************************)
(* Requests in which a statement throws.  The handlers run their           *)
(* statements one after the other, each committed on its own, inside one   *)
(* try block whose catch logs the error and throws it again: when a        *)
(* statement throws (the store is unreachable, the process dies), the      *)
(* statements before it stay applied, the ones after it never run, and the *)
(* caller gets the error.                                                  *)
(***************************************************************************)
\* the error the caller gets, named after the statement that threw it
StatementFailed(failing) ==
  IF failing = "gradebook" THEN "gradebook statement failed"
  ELSE "notification insert failed"

\* the statements of gradeSubmission after the update of the submission
FailingStatements == { "gradebook", "notification" }

\* gradeSubmission in which the gradebook select or write, or the insert of
\* the notification, throws
gradeSubmissionFails(sid, points, feedback, teacherId, failing) ==
  LET args == [ NoArgs EXCEPT !.id = sid, !.points = points, !.text = feedback,
                              !.teacher = teacherId ]
      found == SubmissionIdxById(submissionsTable, sid)
      submission == submissionsTable[FirstIdx(found)]
      assignment == AssignmentOf(submission.assignment_id)
      existing == GradebookIdx(gradebookTable, submission.student_id, assignment.id)
  IN  /\ found # {}
      /\ IsAssignmentOwner(assignment, teacherId)
      /\ submissionsTable' = UpdateSubmissionGrade(submissionsTable, sid, points, feedback, teacherId)
      /\ scored' = scored \cup { << sid, "graded" >> }
      /\ IF failing = "gradebook"
         THEN UNCHANGED << gradebookTable, gradeEvents >>
         ELSE /\ existing # {} \/ Len(gradebookTable) < MaxGradebookRows
              /\ gradebookTable' =
                   UpsertGradebookFromGrade(gradebookTable, existing,
                                            submission.student_id, assignment, points)
              /\ gradeEvents' = gradeEvents \cup { << submission.student_id, assignment.id >> }
      /\ last' = Outcome("gradeSubmission", args, StatementFailed(failing), << >>)
      /\ UNCHANGED << assignmentsTable, classEnrollmentsTable, notificationsTable,
                      quizQuestionsTable, quizQuestionsSeq, quizAnswersTable, procs >>

\* returnSubmissionForRevision in which the insert of the notification throws
returnSubmissionForRevisionFails(sid, feedback, teacherId) ==
  LET args == [ NoArgs EXCEPT !.id = sid, !.text = feedback, !.teacher = teacherId ]
      found == SubmissionIdxById(submissionsTable, sid)
      submission == submissionsTable[FirstIdx(found)]
      assignment == AssignmentOf(submission.assignment_id)
  IN  /\ found # {}
      /\ IsAssignmentOwner(assignment, teacherId)
      /\ submissionsTable' = UpdateSubmissionReturn(submissionsTable, sid, feedback, teacherId)
      /\ last' = Outcome("returnSubmissionForRevision", args,
                         StatementFailed("notification"), << >>)
      /\ UNCHANGED << assignmentsTable, classEnrollmentsTable, gradebookTable,
                      notificationsTable, quizQuestionsTable, quizQuestionsSeq,
                      quizAnswersTable, scored, gradeEvents, procs >>

(***************************************************************************)
(* SpecFailures: the submission of student 3 graded and returned by the    *)
(* owner, by requests that run to their end and by requests in which a     *)
(* statement throws.                                                       *)
(***************************************************************************)
InitFailures ==
  /\ assignmentsTable = { Assignment(1, 1, Null) }
  /\ classEnrollmentsTable = { Enrollment(3, 1) }
  /\ submissionsTable = << >>
  /\ gradebookTable = << >>
  /\ notificationsTable = << >>
  /\ quizQuestionsTable = {}
  /\ quizQuestionsSeq = 0
  /\ quizAnswersTable = << >>
  /\ scored = {}
  /\ gradeEvents = {}
  /\ procs = << >>
  /\ last = NoRequest

NextFailures ==
  \/ \E c \in ContentInputs :
        createSubmission(1, c, 3)
  \/ \E p \in PointsInputs :
        gradeSubmission(1, p, "good", 1)
  \/ returnSubmissionForRevision(1, "good", 1)
  \/ \E p \in PointsInputs, failing \in FailingStatements :
        gradeSubmissionFails(1, p, "good", 1, failing)
  \/ returnSubmissionForRevisionFails(1, "good", 1)

SpecFailures == InitFailures /\ [][NextFailures]_vars

(***************************************************************************)
(* C1.  After any sequence of createSubmission requests there is at most   *)
(* one submission row per (assignment_id, student_id); a createSubmission  *)
(* for a pair that already has a row inserts nothing and returns that very *)
(* row, same id, holding the content of the request (null when the request *)
(* gives no content or an empty one).                                      *)
(***************************************************************************)
C1_OneSubmissionPerPair ==
  [][ /\ \A i, j \in 1..Len(submissionsTable') :
           ( /\ submissionsTable'[i].assignment_id = submissionsTable'[j].assignment_id
             /\ submissionsTable'[i].student_id = submissionsTable'[j].student_id )
           => i = j
      /\ \A i \in 1..Len(submissionsTable) :
           ( /\ last'.op = "createSubmission"
             /\ last'.result = "ok"
             /\ submissionsTable[i].assignment_id = last'.aid
             /\ submissionsTable[i].student_id = last'.student )
           => /\ Len(submissionsTable') = Len(submissionsTable)
              /\ last'.ret = << submissionsTable'[i] >>
              /\ submissionsTable'[i].id = submissionsTable[i].id
              /\ submissionsTable'[i].content =
                   (IF last'.text \in { NullText, "" } THEN NullText ELSE last'.text)
              /\ \A j \in 1..Len(submissionsTable) :
                   j # i => submissionsTable'[j] = submissionsTable[j]
    ]_vars

\* row 1 was submitted again, with content "b", after two more rows were inserted
C1_Witness ==
  /\ last.op = "createSubmission"
  /\ last.result = "ok"
  /\ Len(submissionsTable) = 3
  /\ last.ret = << submissionsTable[1] >>
  /\ submissionsTable[1].content = "b"

(***************************************************************************)
(* C10.  createSubmission throws 'Assignment not found' when the           *)
(* assignment id resolves to no row and 'Student not enrolled in class'    *)
(* when the student has no enrollment row in the assignment's class; in    *)
(* both cases the submissions table is left as it was.                     *)
(***************************************************************************)
C10_CreateSubmissionRejects ==
  [][ last'.op = "createSubmission" =>
        LET resolved == { a \in assignmentsTable : a.id = last'.aid }
            enrolled == \E a \in resolved : \E e \in classEnrollmentsTable :
                           e.user_id = last'.student /\ e.class_id = a.class_id
        IN  /\ resolved = {} =>
                 last'.result = "Assignment not found" /\ UNCHANGED submissionsTable
            /\ (resolved # {} /\ ~enrolled) =>
                 /\ last'.result = "Student not enrolled in class"
                 /\ UNCHANGED submissionsTable
            /\ (resolved # {} /\ enrolled) => last'.result = "ok"
    ]_vars

\* student 4, who has a submission in class 1, was refused on the assignment of class 2
C10_Witness ==
  /\ last.op = "createSubmission"
  /\ last.result = "Student not enrolled in class"
  /\ last.student = 4
  /\ \E i \in 1..Len(submissionsTable) : submissionsTable[i].student_id = 4

(***************************************************************************)
(* Status of the submission with a given id; no row yet is pending.        *)
(***************************************************************************)
StatusIn(t, sid) ==
  IF \E i \in 1..Len(t) : t[i].id = sid
  THEN t[CHOOSE i \in 1..Len(t) : t[i].id = sid].status
  ELSE "pending"

Statuses == { "pending", "submitted", "graded", "returned" }

ClaimedMoves ==
  { << "pending", "submitted" >>, << "submitted", "graded" >>,
    << "submitted", "returned" >>, << "graded", "returned" >>,
    << "returned", "submitted" >>,
    << "submitted", "submitted" >>, << "graded", "graded" >> }

Unmoved == { << st, st >> : st \in Statuses }

(***************************************************************************)
(* C3, as claimed.  A submission's status changes only along               *)
(* pending->submitted, submitted->graded, submitted->returned,             *)
(* graded->returned and returned->submitted (or stays): a graded           *)
(* submission never goes straight back to submitted and a returned one is  *)
(* never graded without being re-submitted.                                *)
(***************************************************************************)
C3_Claimed ==
  [][ \A sid \in 1..Len(submissionsTable') :
        << StatusIn(submissionsTable, sid), StatusIn(submissionsTable', sid) >>
          \in ClaimedMoves \cup Unmoved ]_vars

(***************************************************************************)
(* C3, amended.  A submission's status changes only along the claimed      *)
(* moves and along graded->submitted (createSubmission or                  *)
(* submitQuizAnswers on a graded row) and returned->graded                 *)
(* (gradeSubmission on a returned row); no row goes back to pending, and   *)
(* a pending submission is only ever submitted.                            *)
(***************************************************************************)
C3_StatusMoves ==
  [][ \A sid \in 1..Len(submissionsTable') :
        << StatusIn(submissionsTable, sid), StatusIn(submissionsTable', sid) >>
          \in ClaimedMoves \cup Unmoved \cup
              { << "graded", "submitted" >>, << "returned", "graded" >> } ]_vars

\* a row the teacher graded (with no feedback) that the student then submitted again
C3_Witness ==
  \E i \in 1..Len(submissionsTable) :
     /\ submissionsTable[i].status = "submitted"
     /\ submissionsTable[i].graded_at = "now"
     /\ submissionsTable[i].grade_feedback = NullText
     /\ last.op = "createSubmission"

(***************************************************************************)
(* C4, as claimed.  A submission's points_earned is non-null if and only   *)
(* if its status is graded, or it is submitted and was auto-scored by      *)
(* submitQuizAnswers.                                                      *)
(***************************************************************************)
C4_Claimed ==
  \A i \in 1..Len(submissionsTable) :
     (submissionsTable[i].points_earned # Null)
       <=> \/ submissionsTable[i].status = "graded"
           \/ /\ submissionsTable[i].status = "submitted"
              /\ << submissionsTable[i].id, "auto" >> \in scored

(***************************************************************************)
(* C4, amended.  A submission's points_earned is non-null if and only if   *)
(* the submission has been graded or auto-scored at least once: a graded   *)
(* submission always has points, and createSubmission and                  *)
(* returnSubmissionForRevision never clear them, so a returned and a       *)
(* re-submitted submission keep the points they had.                       *)
(***************************************************************************)
C4_PointsOnceScored ==
  \A i \in 1..Len(submissionsTable) :
     /\ (submissionsTable[i].points_earned # Null)
          <=> \E kind \in { "graded", "auto" } :
                 << submissionsTable[i].id, kind >> \in scored
     /\ submissionsTable[i].status = "graded" => submissionsTable[i].points_earned # Null

\* a returned submission that still carries the points of its grade
C4_Witness ==
  \E i \in 1..Len(submissionsTable) :
     /\ submissionsTable[i].status = "returned"
     /\ submissionsTable[i].points_earned = 7
     /\ last.op = "returnSubmissionForRevision"

(***************************************************************************)
(* C5.  A (student, assignment) pair has exactly one gradebook row once a  *)
(* gradeSubmission, updateGradebookEntry or excuseAssignment has succeeded *)
(* for it, and none before; createSubmission, submitQuizAnswers and        *)
(* returnSubmissionForRevision leave the gradebook as it is.               *)
(***************************************************************************)
C5_EntryCount(student, aid) ==
  Cardinality({ i \in 1..Len(gradebookTable) :
                  /\ gradebookTable[i].student_id = student
                  /\ gradebookTable[i].assignment_id = aid })

C5_OneEntryOnceGraded ==
  \A student \in Students : \A a \in assignmentsTable :
     C5_EntryCount(student, a.id) =
        IF << student, a.id >> \in gradeEvents THEN 1 ELSE 0

\* student 3 was excused and then graded, student 4 has a row too: one row each
C5_Witness ==
  /\ last.op = "gradeSubmission"
  /\ last.result = "ok"
  /\ Len(gradebookTable) = 2
  /\ \E i \in 1..2 : /\ gradebookTable[i].student_id = 3
                     /\ gradebookTable[i].is_excused
                     /\ gradebookTable[i].points_earned = 7
  /\ \E i \in 1..2 : gradebookTable[i].student_id = 4

(***************************************************************************)
(* C7.  A gradeSubmission that succeeds comes from the owner of the        *)
(* assignment; it leaves the submission graded, with the points of the     *)
(* request, its feedback (null when empty or absent) and the grader; the   *)
(* gradebook rows of (student, assignment) exist and hold the points, the  *)
(* assignment's max_points (100 if unset) as points_possible and           *)
(* round(points / points_possible * 100) as percentage; and exactly one    *)
(* notification, grade_received for the student, is added.                 *)
(***************************************************************************)
\* p is x = 100 * points / possible rounded to the nearest integer, ties up
IsRounded(p, points, possible) ==
  /\ (2 * p - 1) * possible <= 200 * points
  /\ 200 * points < (2 * p + 1) * possible

C7_GradeSubmissionEffects ==
  [][ (last'.op = "gradeSubmission" /\ last'.result = "ok") =>
        \E i \in 1..Len(submissionsTable) :
           LET sub == submissionsTable[i]
               after == submissionsTable'[i]
               a == CHOOSE x \in assignmentsTable : x.id = sub.assignment_id
               possible == IF a.max_points = Null THEN 100 ELSE a.max_points
               entries == { j \in 1..Len(gradebookTable') :
                              /\ gradebookTable'[j].student_id = sub.student_id
                              /\ gradebookTable'[j].assignment_id = a.id }
               n == Len(notificationsTable)
           IN  /\ sub.id = last'.id
               /\ a.teacher_id = last'.teacher
               /\ Len(submissionsTable') = Len(submissionsTable)
               /\ after = [ sub EXCEPT
                     !.status = "graded",
                     !.points_earned = last'.points,
                     !.grade_feedback =
                        IF last'.text \in { NullText, "" } THEN NullText ELSE last'.text,
                     !.graded_at = "now",
                     !.graded_by = last'.teacher ]
               /\ last'.ret = << after >>
               /\ entries # {}
               /\ \A j \in entries :
                    /\ gradebookTable'[j].points_earned = last'.points
                    /\ gradebookTable'[j].points_possible = possible
                    /\ IsRounded(gradebookTable'[j].percentage, last'.points, possible)
               /\ Len(notificationsTable') = n + 1
               /\ SubSeq(notificationsTable', 1, n) = notificationsTable
               /\ notificationsTable'[n + 1].type = "grade_received"
               /\ notificationsTable'[n + 1].user_id = sub.student_id
    ]_vars

\* 1 point of 8 is 12.5 percent, recorded as 13
C7_Witness ==
  /\ last.op = "gradeSubmission"
  /\ last.result = "ok"
  /\ last.points = 1
  /\ \E j \in 1..Len(gradebookTable) :
        /\ gradebookTable[j].student_id = 3
        /\ gradebookTable[j].points_possible = 8
        /\ gradebookTable[j].percentage = 13
  /\ notificationsTable[Len(notificationsTable)].type = "grade_received"

(***************************************************************************)
(* C8.  Grading a graded submission again with other points leaves exactly *)
(* one gradebook row for the pair, holding the new points and their        *)
(* percentage, and the submission row holds the new points.                *)
(***************************************************************************)
C8_RegradeOverwrites ==
  [][ \A i \in 1..Len(submissionsTable) :
        ( /\ last'.op = "gradeSubmission"
          /\ last'.result = "ok"
          /\ submissionsTable[i].id = last'.id
          /\ submissionsTable[i].status = "graded"
          /\ submissionsTable[i].points_earned # last'.points )
        => LET sub == submissionsTable[i]
               a == CHOOSE x \in assignmentsTable : x.id = sub.assignment_id
               possible == IF a.max_points = Null THEN 100 ELSE a.max_points
               entries == { j \in 1..Len(gradebookTable') :
                              /\ gradebookTable'[j].student_id = sub.student_id
                              /\ gradebookTable'[j].assignment_id = a.id }
           IN  /\ Cardinality(entries) = 1
               /\ \A j \in entries :
                    /\ gradebookTable'[j].points_earned = last'.points
                    /\ IsRounded(gradebookTable'[j].percentage, last'.points, possible)
               /\ submissionsTable'[i].points_earned = last'.points
               /\ Len(gradebookTable') = Len(gradebookTable)
    ]_vars

\* graded with 1 point, then graded again with 7
C8_Witness ==
  /\ last.op = "gradeSubmission"
  /\ last.result = "ok"
  /\ last.before = 1
  /\ last.points = 7
  /\ \E j \in 1..Len(gradebookTable) :
        gradebookTable[j].student_id = 3 /\ gradebookTable[j].points_earned = 7

(***************************************************************************)
(* C9.  gradeSubmission, returnSubmissionForRevision, deleteQuizQuestion,  *)
(* updateGradebookEntry and excuseAssignment, asked by a teacher who is    *)
(* not the teacher of the assignment the target belongs to, throw an       *)
(* authorization error and leave the submissions, quiz questions,          *)
(* gradebook and notifications as they were.                               *)
(***************************************************************************)
GatedRequests ==
  { "gradeSubmission", "returnSubmissionForRevision", "deleteQuizQuestion",
    "updateGradebookEntry", "excuseAssignment" }

AuthorizationErrors ==
  { "Teacher not authorized to grade this submission",
    "Teacher not authorized to return this submission",
    "Access denied - not assignment owner",
    "Assignment not found or access denied" }

\* the assignment ids the target of request r belongs to, in the current tables
TargetAssignments(r) ==
  IF r.op \in { "gradeSubmission", "returnSubmissionForRevision" }
  THEN { submissionsTable[i].assignment_id :
           i \in { j \in 1..Len(submissionsTable) : submissionsTable[j].id = r.id } }
  ELSE IF r.op = "deleteQuizQuestion"
  THEN { q.assignment_id : q \in { x \in quizQuestionsTable : x.id = r.id } }
  ELSE { r.aid }

C9_NonOwnerRefused ==
  [][ ( /\ last'.op \in GatedRequests
        /\ \E a \in assignmentsTable :
              a.id \in TargetAssignments(last') /\ a.teacher_id # last'.teacher )
      => /\ last'.result \in AuthorizationErrors
         /\ UNCHANGED << submissionsTable, quizQuestionsTable, gradebookTable,
                         notificationsTable >>
    ]_vars

\* a teacher who does not own the assignment tried to grade a graded submission
C9_Witness ==
  /\ last.op = "gradeSubmission"
  /\ last.result = "Teacher not authorized to grade this submission"
  /\ Len(submissionsTable) = 1
  /\ submissionsTable[1].status = "graded"
  /\ submissionsTable[1].graded_by # last.teacher
  /\ Len(gradebookTable) = 1

(***************************************************************************)
(* C2.  When two createSubmission requests for the same (assignment,       *)
(* student) run at once, with their select and their insert or update      *)
(* interleaved in any order, no reachable state holds more than one        *)
(* submission row for the pair.                                            *)
(***************************************************************************)
C2_NoDuplicateSubmission ==
  \A a \in assignmentsTable, s \in Students :
     Cardinality(SubmissionIdx(submissionsTable, a.id, s)) <= 1

(***************************************************************************)
(* C6.  When two of gradeSubmission, updateGradebookEntry and              *)
(* excuseAssignment for the same (student, assignment) run at once, with   *)
(* their select and their write interleaved, no reachable state holds two  *)
(* gradebook rows for the pair.                                            *)
(***************************************************************************)
C6_NoDuplicateGradebookEntry ==
  \A a \in assignmentsTable, s \in Students :
     Cardinality(GradebookIdx(gradebookTable, s, a.id)) <= 1

(***************************************************************************)
(* C11.  A returnSubmissionForRevision that succeeds sets the submission's *)
(* status to returned, its feedback to the feedback of the request and its *)
(* graded_by to the teacher, adds one comment_added notification for the   *)
(* student, and leaves the submission's points_earned, every other         *)
(* submission and every gradebook row as they were.                        *)
(***************************************************************************)
C11_ReturnEffects ==
  [][ ( last'.op = "returnSubmissionForRevision" /\ last'.result = "ok" )
      => \E i \in 1..Len(submissionsTable) :
            /\ submissionsTable[i].id = last'.id
            /\ Len(submissionsTable') = Len(submissionsTable)
            /\ submissionsTable'[i].status = "returned"
            /\ submissionsTable'[i].grade_feedback = last'.text
            /\ submissionsTable'[i].graded_by = last'.teacher
            /\ submissionsTable'[i].points_earned = submissionsTable[i].points_earned
            /\ submissionsTable'[i].content = submissionsTable[i].content
            /\ \A j \in 1..Len(submissionsTable) :
                  j # i => submissionsTable'[j] = submissionsTable[j]
            /\ last'.ret = << submissionsTable'[i] >>
            /\ gradebookTable' = gradebookTable
            /\ Len(notificationsTable') = Len(notificationsTable) + 1
            /\ SubSeq(notificationsTable', 1, Len(notificationsTable)) = notificationsTable
            /\ LET n == notificationsTable'[Len(notificationsTable')]
               IN  /\ n.type = "comment_added"
                   /\ n.user_id = submissionsTable[i].student_id
                   /\ n.assignment_id = submissionsTable[i].assignment_id
    ]_vars

\* a graded submission, with its gradebook row, has just been returned
C11_Witness ==
  /\ last.op = "returnSubmissionForRevision"
  /\ last.result = "ok"
  /\ Len(submissionsTable) = 1
  /\ submissionsTable[1].status = "returned"
  /\ submissionsTable[1].points_earned = 7
  /\ Len(gradebookTable) = 1
  /\ gradebookTable[1].points_earned = 7

C12_WitnessLeft ==
  /\ last.op = "getPendingSubmissions"
  /\ last.teacher = 1
  /\ last.ret = << >>
  /\ \E i \in 1..Len(submissionsTable) :
        submissionsTable[i].assignment_id = 1 /\ submissionsTable[i].status = "returned"

(***************************************************************************)
(* C13.  deleteQuizQuestion by the teacher of the question's assignment    *)
(* removes the question and lowers by exactly one the order_index of every *)
(* remaining question of the same assignment whose order_index was greater *)
(* than the deleted one's, leaving every other question as it was; from    *)
(* distinct contiguous indices b..b+n-1 it leaves b..b+n-2.                *)
(***************************************************************************)
QuestionsOf(t, aid) == { q \in t : q.assignment_id = aid }

OrderIndices(t, aid) == { q.order_index : q \in QuestionsOf(t, aid) }

\* the indices of the assignment's questions are pairwise distinct and gap-free
ContiguousIndices(t, aid) ==
  /\ Cardinality(OrderIndices(t, aid)) = Cardinality(QuestionsOf(t, aid))
  /\ \A i, j \in OrderIndices(t, aid) :
        \A k \in i..j : k \in OrderIndices(t, aid)

\* the questions after the delete of q, as the claim describes them
DeletedAndShifted(q) ==
  /\ \A r \in quizQuestionsTable' : r.id # q.id
  /\ Cardinality(quizQuestionsTable') = Cardinality(quizQuestionsTable) - 1
  /\ \A r \in quizQuestionsTable :
        r.id # q.id =>
          \E r2 \in quizQuestionsTable' :
             /\ r2.id = r.id
             /\ r2.order_index =
                  IF r.assignment_id = q.assignment_id /\ r.order_index > q.order_index
                  THEN r.order_index - 1 ELSE r.order_index
             /\ [ r2 EXCEPT !.order_index = r.order_index ] = r
  /\ ContiguousIndices(quizQuestionsTable, q.assignment_id) =>
        /\ ContiguousIndices(quizQuestionsTable', q.assignment_id)
        /\ \A b \in OrderIndices(quizQuestionsTable, q.assignment_id) :
              ( \A i \in OrderIndices(quizQuestionsTable, q.assignment_id) : b <= i )
              => OrderIndices(quizQuestionsTable', q.assignment_id) =
                   b .. (b + Cardinality(QuestionsOf(quizQuestionsTable, q.assignment_id)) - 2)

C13_OwnerDeleteReorders ==
  [][ \A q \in quizQuestionsTable :
        ( /\ last'.op = "deleteQuizQuestion"
          /\ last'.id = q.id
          /\ \E a \in assignmentsTable :
                a.id = q.assignment_id /\ a.teacher_id = last'.teacher )
        => DeletedAndShifted(q)
    ]_vars

\* the same of the deletes the store accepts
C13_AcceptedDeleteReorders ==
  [][ \A q \in quizQuestionsTable :
        ( last'.op = "deleteQuizQuestion" /\ last'.id = q.id /\ last'.result = "ok" )
        => DeletedAndShifted(q)
    ]_vars

\* the owner's delete of an answered question was refused by the store
C13_Witness ==
  /\ last.op = "deleteQuizQuestion"
  /\ last.result = "violates foreign key constraint"
  /\ \E q \in quizQuestionsTable :
        /\ q.id = last.id
        /\ \E a \in assignmentsTable : a.id = q.assignment_id /\ a.teacher_id = last.teacher

(***************************************************************************)
(* C14.  After any sequence of createQuizQuestion, updateQuizQuestion and  *)
(* deleteQuizQuestion requests, the order_index values of each             *)
(* assignment's questions are pairwise distinct and form a gap-free range. *)
(***************************************************************************)
C14_IndicesContiguous ==
  \A a \in assignmentsTable : ContiguousIndices(quizQuestionsTable, a.id)

(***************************************************************************)
(* C15.  The delete and the index shift of deleteQuizQuestion are atomic:  *)
(* a getQuizQuestions running beside deletes never returns a list with a   *)
(* gap or a duplicate in its order_index values, and whenever no delete is *)
(* in flight the order_index values of the assignment are pairwise         *)
(* distinct and gap-free.                                                  *)
(***************************************************************************)
C15_DeleteAtomic ==
  /\ ( last.op = "getQuizQuestions" /\ last.result = "ok" )
     => LET seen == { last.ret[i].order_index : i \in 1..Len(last.ret) }
        IN  /\ Cardinality(seen) = Len(last.ret)
            /\ \A i, j \in seen : \A k \in i..j : k \in seen
  /\ ( \A p \in ProcIds : procs[p].pc = "idle" )
     => \A a \in assignmentsTable : ContiguousIndices(quizQuestionsTable, a.id)

\* the first half alone: what a reader sees
C15_ReaderSeesNoGap ==
  ( last.op = "getQuizQuestions" /\ last.result = "ok" )
  => LET seen == { last.ret[i].order_index : i \in 1..Len(last.ret) }
     IN  /\ Cardinality(seen) = Len(last.ret)
         /\ \A i, j \in seen : \A k \in i..j : k \in seen

\* the second half alone: what two deletes leave behind
C15_DeletesLeaveNoGap ==
  ( \A p \in ProcIds : procs[p].pc = "idle" )
  => \A a \in assignmentsTable : ContiguousIndices(quizQuestionsTable, a.id)

(***************************************************************************)
(* C16.  For each answer submitQuizAnswers processes: when the question    *)
(* has a key (non-null and not the empty string) and is not an essay, the  *)
(* stored is_correct is true exactly when the answer text equals the key   *)
(* after trimming whitespace and ignoring case, and the stored             *)
(* points_earned is question.points if correct and 0 otherwise; for an     *)
(* essay question is_correct is null and points_earned is 0 whatever the   *)
(* text; for a question that is not an essay and whose key is the empty    *)
(* string, is_correct is false and points_earned is 0 whatever the text.   *)
(***************************************************************************)
\* the text of the last answer the request gives for question qid
LastAnswerFor(answers, qid) ==
  LET at == { i \in 1..Len(answers) : answers[i].questionId = qid }
  IN  answers[CHOOSE i \in at : \A j \in at : j <= i].answerText

AnsweredQuestions(answers) ==
  { q \in quizQuestionsTable : \E i \in 1..Len(answers) : answers[i].questionId = q.id }

SameAfterTrimAndCase(a, b) == Trim(ToLowerCase(a)) = Trim(ToLowerCase(b))

ScoredAgainstKey(q, text, row) ==
  /\ row.is_correct = IF SameAfterTrimAndCase(text, q.correct_answer) THEN "true" ELSE "false"
  /\ row.points_earned = IF row.is_correct = "true" THEN q.points ELSE 0

\* the original statement: every non-null key is compared
C16_ScoreAsClaimed(q, text, row) ==
  IF q.question_type = "essay"
  THEN row.is_correct = NullText /\ row.points_earned = 0
  ELSE q.correct_answer # NullChars => ScoredAgainstKey(q, text, row)

C16_ScoreAsCoded(q, text, row) ==
  IF q.question_type = "essay"
  THEN row.is_correct = NullText /\ row.points_earned = 0
  ELSE IF q.correct_answer = << >>
  THEN row.is_correct = "false" /\ row.points_earned = 0
  ELSE q.correct_answer # NullChars => ScoredAgainstKey(q, text, row)

RECURSIVE AwardedSum(_, _)
AwardedSum(answers, questions) ==
  IF answers = << >> THEN 0
  ELSE LET named == { q \in questions : q.id = Head(answers).questionId }
       IN  ( IF \E q \in named :
                   /\ IsAutoScored(q)
                   /\ SameAfterTrimAndCase(Head(answers).answerText, q.correct_answer)
             THEN (CHOOSE q \in named : TRUE).points ELSE 0 )
           + AwardedSum(Tail(answers), questions)

C17_SubmissionTotal ==
  [][ ( last'.op = "submitQuizAnswers" /\ last'.result = "ok" )
      => /\ Len(submissionsTable') = Len(submissionsTable)
         /\ \A i \in 1..Len(submissionsTable) :
               IF submissionsTable[i].id = last'.id
               THEN /\ submissionsTable'[i].points_earned =
                         AwardedSum(last'.answers, quizQuestionsTable)
                    /\ submissionsTable'[i].status = "submitted"
                    /\ submissionsTable'[i].submitted_at = "now"
                    /\ submissionsTable'[i].content = submissionsTable[i].content
               ELSE submissionsTable'[i] = submissionsTable[i]
    ]_vars

\* a request with a correct answer, an essay answer: 2 points in total, while
\* the other submission keeps its own total
C17_Witness ==
  /\ last.op = "submitQuizAnswers"
  /\ last.result = "ok"
  /\ last.id = 1
  /\ last.answers = << [ questionId |-> 1, answerText |-> << " ", "4", " " >> ],
                       [ questionId |-> 2, answerText |-> << "a" >> ] >>
  /\ Len(submissionsTable) = 2
  /\ submissionsTable[1].points_earned = 2
  /\ submissionsTable[2].points_earned = 0

(***************************************************************************)
(* C18.  After any sequence of submitQuizAnswers requests, a request that  *)
(* names one question twice included, there is at most one quiz answer row *)
(* per (submission, question), it holds the text of the answer processed   *)
(* last for the pair, and the rows of the other pairs are untouched.       *)
(***************************************************************************)
AnswerRows(t, sid, qid) ==
  { i \in 1..Len(t) : t[i].submission_id = sid /\ t[i].question_id = qid }

C18_OneAnswerPerPair ==
  [][ /\ \A i, j \in 1..Len(quizAnswersTable') :
            ( /\ quizAnswersTable'[i].submission_id = quizAnswersTable'[j].submission_id
              /\ quizAnswersTable'[i].question_id = quizAnswersTable'[j].question_id )
            => i = j
      /\ ( last'.op = "submitQuizAnswers" /\ last'.result = "ok" )
         => /\ \A q \in AnsweredQuestions(last'.answers) :
                  \E i \in AnswerRows(quizAnswersTable', last'.id, q.id) :
                     quizAnswersTable'[i].answer_text = LastAnswerFor(last'.answers, q.id)
            /\ \A i \in 1..Len(quizAnswersTable) :
                  ( \/ quizAnswersTable[i].submission_id # last'.id
                    \/ \A k \in 1..Len(last'.answers) :
                          last'.answers[k].questionId # quizAnswersTable[i].question_id )
                  => \E j \in 1..Len(quizAnswersTable') :
                        quizAnswersTable'[j] = quizAnswersTable[i]
    ]_vars

\* question 1 was answered "5" and then, in one request, " 4 " after "5":
\* one row for the pair, holding " 4 ", beside the row of the other submission
C18_Witness ==
  /\ last.op = "submitQuizAnswers"
  /\ last.id = 1
  /\ last.answers = << [ questionId |-> 1, answerText |-> << "5" >> ],
                       [ questionId |-> 1, answerText |-> << " ", "4", " " >> ] >>
  /\ Cardinality(AnswerRows(quizAnswersTable, 1, 1)) = 1
  /\ Cardinality(AnswerRows(quizAnswersTable, 2, 1)) = 1
  /\ \A i \in AnswerRows(quizAnswersTable, 1, 1) :
        quizAnswersTable[i].answer_text = << " ", "4", " " >>

(***************************************************************************)
(* Who sees the answer keys.                                               *)
(***************************************************************************)
StoredQuestions(aid) == { q \in quizQuestionsTable : q.assignment_id = aid }

ReturnedRows(ret) == { ret[i] : i \in 1..Len(ret) }

IsAssignmentTeacher(aid, userId) ==
  \E a \in AssignmentsById(aid) : a.teacher_id = userId

IsEnrolledFor(aid, userId) ==
  \E a \in AssignmentsById(aid) :
     \E e \in classEnrollmentsTable : e.user_id = userId /\ e.class_id = a.class_id

\* C19: getQuizQuestions called by anyone but the assignment's teacher
\* returns every question of the assignment with correct_answer null,
\* whatever the state of the caller's submission; called by the assignment's
\* teacher it returns the stored rows, keys included; a caller who is neither
\* the teacher nor enrolled in the class is refused with "Access denied".
C19_KeysOnlyForTeacher ==
  ( last.op = "getQuizQuestions" /\ AssignmentsById(last.aid) # {} ) =>
     LET isTeacher == IsAssignmentTeacher(last.aid, last.student)
         isEnrolled == IsEnrolledFor(last.aid, last.student)
     IN  /\ ( ~isTeacher /\ ~isEnrolled ) => last.result = "Access denied"
         /\ ( ~isTeacher /\ isEnrolled ) =>
               /\ last.result = "ok"
               /\ Len(last.ret) = Cardinality(StoredQuestions(last.aid))
               /\ \A i \in 1..Len(last.ret) :
                     /\ last.ret[i].correct_answer = NullChars
                     /\ \E q \in StoredQuestions(last.aid) :
                           [ q EXCEPT !.correct_answer = NullChars ] = last.ret[i]
               /\ { r.id : r \in ReturnedRows(last.ret) } = { q.id : q \in StoredQuestions(last.aid) }
         /\ isTeacher =>
               /\ last.result = "ok"
               /\ Len(last.ret) = Cardinality(StoredQuestions(last.aid))
               /\ ReturnedRows(last.ret) = StoredQuestions(last.aid)

\* the enrolled student reads the questions of a keyed quiz while their
\* submission is in the given status
StudentReadsWhile(status) ==
  /\ last.op = "getQuizQuestions" /\ last.result = "ok" /\ last.student = 3
  /\ Len(last.ret) = 2
  /\ \E q \in StoredQuestions(last.aid) : q.correct_answer # NullChars
  /\ \E i \in 1..Len(submissionsTable) :
        /\ submissionsTable[i].student_id = 3
        /\ submissionsTable[i].assignment_id = last.aid
        /\ submissionsTable[i].status = status

C19_Witness == StudentReadsWhile("graded")

C19_WitnessSubmitted == StudentReadsWhile("submitted")

C19_WitnessReturned == StudentReadsWhile("returned")

C19_WitnessTeacher ==
  /\ last.op = "getQuizQuestions" /\ last.result = "ok" /\ last.student = 1
  /\ \E i \in 1..Len(last.ret) : last.ret[i].correct_answer = << "4" >>

C19_WitnessRefused ==
  /\ last.op = "getQuizQuestions" /\ last.result = "Access denied"
  /\ last.student \in {2, 4}

(***************************************************************************)
(* Who reads an assignment.                                                *)
(***************************************************************************)
ReadRequests == { "getAssignmentById", "getQuizQuestions" }

ReadGranted(ops) ==
  /\ last.op \in ops /\ last.result = "ok"
  /\ AssignmentsById(last.aid) # {}
  /\ ~IsAssignmentTeacher(last.aid, last.student)

EnrolledAndPublished ==
  /\ IsEnrolledFor(last.aid, last.student)
  /\ \A a \in AssignmentsById(last.aid) : a.is_published

\* C20: a caller who is not the teacher reads an assignment through
\* getAssignmentById, or its questions through getQuizQuestions, only when
\* they hold an enrollment row in the assignment's class and the assignment
\* is published.
C20_ReadNeedsEnrollmentAndPublished ==
  ReadGranted(ReadRequests) => EnrolledAndPublished

\* the part the code keeps: getAssignmentById alone
C20_GetAssignmentByIdGated ==
  ReadGranted({ "getAssignmentById" }) => EnrolledAndPublished

\* the part the code keeps of getQuizQuestions: enrollment
C20_GetQuizQuestionsNeedsEnrollment ==
  ReadGranted({ "getQuizQuestions" }) => IsEnrolledFor(last.aid, last.student)

\* the enrolled student is refused the unpublished assignment itself
C20_Witness ==
  /\ last.op = "getAssignmentById" /\ last.student = 3
  /\ last.result = "Assignment not available"
  /\ \E a \in AssignmentsById(last.aid) : ~a.is_published

\* ... and is handed its questions
C20_WitnessLeak ==
  /\ last.op = "getQuizQuestions" /\ last.student = 3 /\ last.result = "ok"
  /\ Len(last.ret) = 2
  /\ \E a \in AssignmentsById(last.aid) : ~a.is_published

(***************************************************************************)
(* The gradebook row an updateGradebookEntry leaves.                       *)
(***************************************************************************)
EntriesOf(t, studentId, aid) ==
  { j \in 1..Len(t) : t[j].student_id = studentId /\ t[j].assignment_id = aid }

MaxPointsOr100(aid) ==
  LET a == CHOOSE x \in assignmentsTable : x.id = aid
  IN  IF a.max_points = Null THEN 100 ELSE a.max_points

LetterByThresholds(percentage) ==
  CASE percentage >= 90 -> "A"
    [] percentage >= 80 /\ percentage < 90 -> "B"
    [] percentage >= 70 /\ percentage < 80 -> "C"
    [] percentage >= 60 /\ percentage < 70 -> "D"
    [] OTHER -> "F"

\* the percentage, the letter grade and the excused flag of the claim
GradeFieldsAsClaimed(row, points, possible) ==
  /\ row.points_earned = points
  /\ IsRounded(row.percentage, points, possible)
  /\ row.letter_grade = LetterByThresholds(row.percentage)
  /\ row.is_excused = FALSE

\* C21: after an accepted updateGradebookEntry(student, assignment, points,
\* owner), whether the row was inserted or updated in place, the stored row
\* has points_possible = the assignment's current max_points (100 if unset),
\* percentage = round(points / points_possible * 100), is_excused = false and
\* the letter grade of the thresholds 90 / 80 / 70 / 60.
C21_EntryAfterUpdate ==
  [][ (last'.op = "updateGradebookEntry" /\ last'.result = "ok") =>
        LET possible == MaxPointsOr100(last'.aid)
            entries == EntriesOf(gradebookTable', last'.student, last'.aid)
        IN  /\ entries # {}
            /\ \A j \in entries :
                  /\ gradebookTable'[j].points_possible = possible
                  /\ GradeFieldsAsClaimed(gradebookTable'[j], last'.points, possible)
    ]_vars

\* what the code keeps: the grade fields follow the current max_points on
\* both paths, and points_possible does on the insert path
C21_GradeFieldsAfterUpdate ==
  [][ (last'.op = "updateGradebookEntry" /\ last'.result = "ok") =>
        LET possible == MaxPointsOr100(last'.aid)
            entries == EntriesOf(gradebookTable', last'.student, last'.aid)
        IN  /\ entries # {}
            /\ \A j \in entries :
                  /\ GradeFieldsAsClaimed(gradebookTable'[j], last'.points, possible)
                  /\ EntriesOf(gradebookTable, last'.student, last'.aid) = {}
                       => gradebookTable'[j].points_possible = possible
    ]_vars

\* the letter grades at the thresholds: 90 A, 89 B, 80 B, 79 C, 60 D, 59 F
C21_Boundaries ==
  \A j \in 1..Len(gradebookTable) :
     LET row == gradebookTable[j]
     IN  /\ row.percentage = 90 /\ ~row.is_excused => row.letter_grade = "A"
         /\ row.percentage = 89 /\ ~row.is_excused => row.letter_grade = "B"
         /\ row.percentage = 80 /\ ~row.is_excused => row.letter_grade = "B"
         /\ row.percentage = 79 /\ ~row.is_excused => row.letter_grade = "C"
         /\ row.percentage = 60 /\ ~row.is_excused => row.letter_grade = "D"
         /\ row.percentage = 59 /\ ~row.is_excused => row.letter_grade = "F"

\* a row inserted while max_points was unset, updated after it became 50:
\* 45 points of 50 are 90 percent, an A, on a row that still says 100 possible
C21_Witness ==
  /\ last.op = "updateGradebookEntry" /\ last.result = "ok" /\ last.points = 45
  /\ MaxPointsOr100(1) = 50
  /\ \E j \in EntriesOf(gradebookTable, 3, 1) :
        /\ gradebookTable[j].points_possible = 100
        /\ gradebookTable[j].percentage = 90
        /\ gradebookTable[j].letter_grade = "A"

(***************************************************************************)
(* The range of the stored percentage.                                     *)
(***************************************************************************)
\* C22: in every state reached by gradeSubmission, updateGradebookEntry and
\* excuseAssignment, the percentage of every gradebook row is null or an
\* integer from 0 to 100.
C22_PercentageInRange ==
  \A j \in 1..Len(gradebookTable) :
     \/ gradebookTable[j].percentage = Null
     \/ gradebookTable[j].percentage \in 0..100

\* what the code keeps for points no smaller than 0: a percentage no smaller
\* than 0, and no larger than 100 when the points do not exceed the points
\* the percentage was computed from
C22_PercentageNotNegative ==
  \A j \in 1..Len(gradebookTable) :
     \/ gradebookTable[j].percentage = Null
     \/ gradebookTable[j].percentage >= 0

\* 150 points of 100 stored as 150 percent by updateGradebookEntry
C22_Witness ==
  /\ last.op = "updateGradebookEntry" /\ last.result = "ok" /\ last.points = 150
  /\ \E j \in EntriesOf(gradebookTable, last.student, last.aid) :
        gradebookTable[j].percentage = 150

\* ... and by gradeSubmission
C22_WitnessGrade ==
  /\ last.op = "gradeSubmission" /\ last.result = "ok" /\ last.points = 150
  /\ \E j \in EntriesOf(gradebookTable, 3, 1) :
        gradebookTable[j].percentage = 300

(***************************************************************************)
(* Excusing and grading again.                                             *)
(***************************************************************************)
\* first half: excuseAssignment on a pair that holds a grade sets
\* points_earned, percentage and letter_grade to null and is_excused to true
\* on the row that exists, adding none.
C23_ExcuseClearsGrade ==
  [][ ( /\ last'.op = "excuseAssignment" /\ last'.result = "ok"
        /\ \E j \in EntriesOf(gradebookTable, last'.student, last'.aid) :
              gradebookTable[j].points_earned # Null )
      => /\ Len(gradebookTable') = Len(gradebookTable)
         /\ \A j \in 1..Len(gradebookTable) :
              IF gradebookTable[j].student_id = last'.student
                 /\ gradebookTable[j].assignment_id = last'.aid
              THEN gradebookTable'[j] =
                     [ gradebookTable[j] EXCEPT !.points_earned = Null,
                                                !.percentage = Null,
                                                !.letter_grade = NullText,
                                                !.is_excused = TRUE ]
              ELSE gradebookTable'[j] = gradebookTable[j]
    ]_vars

\* second half: updateGradebookEntry on an excused pair sets is_excused
\* back to false and stores the points of the request with their percentage
\* and letter grade, on the same single row.
C23_UpdateRestoresGrade ==
  [][ ( /\ last'.op = "updateGradebookEntry" /\ last'.result = "ok"
        /\ \E j \in EntriesOf(gradebookTable, last'.student, last'.aid) :
              gradebookTable[j].is_excused )
      => /\ Len(gradebookTable') = Len(gradebookTable)
         /\ Cardinality(EntriesOf(gradebookTable', last'.student, last'.aid)) = 1
         /\ \A j \in 1..Len(gradebookTable) :
              IF gradebookTable[j].student_id = last'.student
                 /\ gradebookTable[j].assignment_id = last'.aid
              THEN /\ gradebookTable'[j].id = gradebookTable[j].id
                   /\ GradeFieldsAsClaimed(gradebookTable'[j], last'.points,
                                           MaxPointsOr100(last'.aid))
              ELSE gradebookTable'[j] = gradebookTable[j]
    ]_vars

\* C23: excusing a graded pair clears points_earned, percentage and
\* letter_grade and sets is_excused on the existing row; a later
\* updateGradebookEntry on the pair sets is_excused back to false and stores
\* points, percentage and letter grade again, on the same single row.
C23_ExcuseThenRegrade == C23_ExcuseClearsGrade /\ C23_UpdateRestoresGrade

\* the excused row of student 3 is graded again, with 90 points
C23_Witness ==
  /\ last.op = "updateGradebookEntry" /\ last.result = "ok"
  /\ last.student = 3 /\ last.points = 90 /\ last.found = "excused"
  /\ Cardinality(EntriesOf(gradebookTable, 3, 1)) = 1
  /\ \E j \in EntriesOf(gradebookTable, 3, 1) :
        /\ ~gradebookTable[j].is_excused
        /\ gradebookTable[j].letter_grade = "A"

\* the excusal of a graded row has happened
C23_WitnessExcused ==
  /\ last.op = "excuseAssignment" /\ last.result = "ok" /\ last.student = 3
  /\ last.found = "graded"
  /\ \E j \in EntriesOf(gradebookTable, 3, 1) :
        /\ gradebookTable[j].is_excused
        /\ gradebookTable[j].points_earned = Null
        /\ gradebookTable[j].percentage = Null
        /\ gradebookTable[j].letter_grade = NullText
        /\ gradebookTable[j].points_possible = 100

(***************************************************************************)
(* Class averages.                                                         *)
(***************************************************************************)
\* the rows of an assignment that count: of the class, not excused, with a
\* percentage
CountedRows(classId, aid) ==
  { j \in 1..Len(gradebookTable) :
      /\ gradebookTable[j].class_id = classId
      /\ gradebookTable[j].assignment_id = aid
      /\ ~gradebookTable[j].is_excused
      /\ gradebookTable[j].percentage # Null }

RECURSIVE PercentageTotal(_)
PercentageTotal(S) ==
  IF S = {} THEN 0
  ELSE LET j == CHOOSE x \in S : TRUE
       IN  gradebookTable[j].percentage + PercentageTotal(S \ {j})

\* average is the mean of the percentages of the rows S
IsMeanOf(average, S) ==
  average.num * Cardinality(S) = PercentageTotal(S) * average.den

\* C24: getClassAverages, asked by the teacher of the class, lists every
\* assignment that has at least one entry of the class that is not excused
\* and has a percentage, once, with the mean of the percentages of those
\* entries; excused entries and entries without percentage count in neither
\* the sum nor the count, and an assignment with only such entries is not
\* listed.
C24_AveragesExcludeExcused ==
  ( last.op = "getClassAverages" /\ last.result = "ok" ) =>
     LET listed == { last.ret[i].assignmentId : i \in 1..Len(last.ret) }
         counted == { gradebookTable[j].assignment_id : j \in 1..Len(gradebookTable) }
     IN  /\ \A aid \in counted :
              CountedRows(last.id, aid) # {} <=> aid \in listed
         /\ listed \subseteq counted
         /\ \A i, k \in 1..Len(last.ret) :
              last.ret[i].assignmentId = last.ret[k].assignmentId => i = k
         /\ \A i \in 1..Len(last.ret) :
              IsMeanOf(last.ret[i].average, CountedRows(last.id, last.ret[i].assignmentId))

\* entries 80, excused, 90 on assignment 1 average to 85
C24_Witness ==
  /\ last.op = "getClassAverages" /\ last.result = "ok" /\ last.id = 1
  /\ \E j \in EntriesOf(gradebookTable, 3, 1) : gradebookTable[j].percentage = 80
  /\ \E j \in EntriesOf(gradebookTable, 4, 1) : gradebookTable[j].is_excused
  /\ \E j \in EntriesOf(gradebookTable, 5, 1) : gradebookTable[j].percentage = 90
  /\ \E i \in 1..Len(last.ret) :
        last.ret[i] = [ assignmentId |-> 1, average |-> [ num |-> 85, den |-> 1 ] ]
  /\ \A i \in 1..Len(last.ret) : last.ret[i].assignmentId # 2

\* an excused row that holds a percentage (graded while excused) is left out
C24_WitnessExcusedWithPercentage ==
  /\ last.op = "getClassAverages" /\ last.result = "ok" /\ last.id = 1
  /\ \E j \in EntriesOf(gradebookTable, 3, 1) :
        gradebookTable[j].is_excused /\ gradebookTable[j].percentage = 45
  /\ Len(last.ret) >= 1

\* every entry of assignment 2 excused: the assignment is not listed
C24_WitnessNotListed ==
  /\ last.op = "getClassAverages" /\ last.result = "ok" /\ last.id = 1
  /\ \E j \in 1..Len(gradebookTable) : gradebookTable[j].assignment_id = 2
  /\ \A j \in 1..Len(gradebookTable) :
        gradebookTable[j].assignment_id = 2 => gradebookTable[j].is_excused
  /\ Len(last.ret) = 1
  /\ last.ret[1].assignmentId = 1

(***************************************************************************)
(* Statements that throw.                                                  *)
(***************************************************************************)
\* C25: whenever a submission is graded and no gradeSubmission on it is
\* running, a gradebook row exists for its (student, assignment), also after
\* a gradeSubmission that failed between its statements.
C25_GradedHasEntry ==
  \A i \in 1..Len(submissionsTable) :
     submissionsTable[i].status = "graded" =>
        EntriesOf(gradebookTable, submissionsTable[i].student_id,
                  submissionsTable[i].assignment_id) # {}

\* what the code keeps: a gradeSubmission that returns leaves the row
C25_ReturnedGradeHasEntry ==
  ( last.op = "gradeSubmission" /\ last.result = "ok" ) =>
     \A i \in 1..Len(submissionsTable) :
        submissionsTable[i].id = last.id =>
           EntriesOf(gradebookTable, submissionsTable[i].student_id,
                     submissionsTable[i].assignment_id) # {}

\* the request threw at the gradebook step: graded, no row, nothing running
C25_Witness ==
  /\ last.op = "gradeSubmission" /\ last.result = StatementFailed("gradebook")
  /\ \E i \in 1..Len(submissionsTable) :
        /\ submissionsTable[i].id = last.id
        /\ submissionsTable[i].status = "graded"
        /\ EntriesOf(gradebookTable, submissionsTable[i].student_id,
                     submissionsTable[i].assignment_id) = {}

\* C26: a gradeSubmission or returnSubmissionForRevision whose notification
\* cannot be created still returns the updated submission: the caller gets
\* no error from a request that has written the submission (and gradebook).
C26_NotificationFailureNotPropagated ==
  [][ last'.op \in { "gradeSubmission", "returnSubmissionForRevision" } =>
        last'.result # StatementFailed("notification")
    ]_vars

\* the callers got an error; the submission is graded with its gradebook row,
\* or returned, and no notification was stored
C26_Witness ==
  /\ last.op = "gradeSubmission" /\ last.result = StatementFailed("notification")
  /\ notificationsTable = << >>
  /\ \E i \in 1..Len(submissionsTable) :
        /\ submissionsTable[i].id = last.id
        /\ submissionsTable[i].status = "graded"
        /\ EntriesOf(gradebookTable, submissionsTable[i].student_id,
                     submissionsTable[i].assignment_id) # {}

C26_WitnessReturn ==
  /\ last.op = "returnSubmissionForRevision" /\ last.result = StatementFailed("notification")
  /\ notificationsTable = << >>
  /\ \E i \in 1..Len(submissionsTable) :
        submissionsTable[i].id = last.id /\ submissionsTable[i].status = "returned"

(***************************************************************************)
(* The gradebook row as a whole.                                           *)
(***************************************************************************)
\* C27: in every state reached by gradeSubmission, updateGradebookEntry and
\* excuseAssignment, a gradebook row with a percentage holds the letter grade
\* the thresholds give that percentage, never null and never the letter of
\* an earlier grade.
C27_LetterMatchesPercentage ==
  \A j \in 1..Len(gradebookTable) :
     gradebookTable[j].percentage # Null =>
        gradebookTable[j].letter_grade = LetterByThresholds(gradebookTable[j].percentage)

\* what the code keeps: the row an updateGradebookEntry has just written
C27_LetterAfterUpdateEntry ==
  ( last.op = "updateGradebookEntry" /\ last.result = "ok" ) =>
     \A j \in EntriesOf(gradebookTable, last.student, last.aid) :
        gradebookTable[j].letter_grade = LetterByThresholds(gradebookTable[j].percentage)

\* a row inserted by gradeSubmission: a percentage and no letter grade
C27_Witness ==
  /\ last.op = "gradeSubmission" /\ last.result = "ok" /\ last.points = 45
  /\ \E j \in EntriesOf(gradebookTable, 3, 1) :
        /\ gradebookTable[j].percentage = 45
        /\ gradebookTable[j].letter_grade = NullText

\* a row graded A by updateGradebookEntry, then regraded by gradeSubmission:
\* 45 percent and still an A
C27_WitnessStale ==
  /\ last.op = "gradeSubmission" /\ last.result = "ok" /\ last.points = 45
  /\ \E j \in EntriesOf(gradebookTable, 3, 1) :
        /\ gradebookTable[j].percentage = 45
        /\ gradebookTable[j].letter_grade = "A"

\* C28: in every state reached by gradeSubmission, updateGradebookEntry and
\* excuseAssignment, a gradebook row with is_excused = true has points_earned,
\* percentage and letter_grade null; grading a submission whose pair was
\* excused leaves no row that is both excused and graded.
C28_ExcusedHoldsNoGrade ==
  \A j \in 1..Len(gradebookTable) :
     gradebookTable[j].is_excused =>
        /\ gradebookTable[j].points_earned = Null
        /\ gradebookTable[j].percentage = Null
        /\ gradebookTable[j].letter_grade = NullText

\* what the code keeps: the row an excuseAssignment has just written
C28_ExcusedAfterExcuse ==
  ( last.op = "excuseAssignment" /\ last.result = "ok" ) =>
     \A j \in EntriesOf(gradebookTable, last.student, last.aid) :
        /\ gradebookTable[j].is_excused
        /\ gradebookTable[j].points_earned = Null
        /\ gradebookTable[j].percentage = Null
        /\ gradebookTable[j].letter_grade = NullText

\* the pair was excused, then its submission graded: the row is excused and
\* holds 45 points
C28_Witness ==
  /\ last.op = "gradeSubmission" /\ last.result = "ok" /\ last.points = 45
  /\ \E j \in EntriesOf(gradebookTable, 3, 1) :
        /\ gradebookTable[j].is_excused
        /\ gradebookTable[j].points_earned = 45
        /\ gradebookTable[j].percentage # Null

(***************************************************************************)
(* The total of a quiz submission against its stored answers.              *)
(***************************************************************************)
RECURSIVE StoredPoints(_, _)
StoredPoints(t, S) ==
  IF S = {} THEN 0
  ELSE LET i == CHOOSE x \in S : TRUE
       IN  t[i].points_earned + StoredPoints(t, S \ {i})

AnswersOfSubmission(t, sid) == { i \in 1..Len(t) : t[i].submission_id = sid }

\* C29: after any sequence of submitQuizAnswers requests on a submission, in
\* one request or several, a question repeated or not, the submission's
\* points_earned is the sum of points_earned over the quiz answer rows stored
\* for it.
C29_TotalIsSumOfStoredAnswers ==
  ( last.op = "submitQuizAnswers" /\ last.result = "ok" ) =>
     \A i \in 1..Len(submissionsTable) :
        submissionsTable[i].id = last.id =>
           submissionsTable[i].points_earned =
             StoredPoints(quizAnswersTable, AnswersOfSubmission(quizAnswersTable, last.id))

\* what the code keeps: the total is the sum over the answers of the last
\* request alone, which is the stored sum when the request is the first on
\* the submission and names no question twice
C29_FirstRequestWithoutRepeats ==
  [][ ( /\ last'.op = "submitQuizAnswers" /\ last'.result = "ok"
        /\ AnswersOfSubmission(quizAnswersTable, last'.id) = {}
        /\ \A a, b \in 1..Len(last'.answers) :
              last'.answers[a].questionId = last'.answers[b].questionId => a = b )
      => \A i \in 1..Len(submissionsTable') :
            submissionsTable'[i].id = last'.id =>
               submissionsTable'[i].points_earned =
                 StoredPoints(quizAnswersTable', AnswersOfSubmission(quizAnswersTable', last'.id))
    ]_vars

\* question 1 answered in one request, question 3 in the next: rows worth
\* 2 + 3 points, a total of 3
C29_Witness ==
  /\ last.op = "submitQuizAnswers" /\ last.result = "ok" /\ last.id = 1
  /\ last.answers = << [ questionId |-> 3, answerText |-> << "a", "B" >> ] >>
  /\ submissionsTable[1].points_earned = 3
  /\ StoredPoints(quizAnswersTable, AnswersOfSubmission(quizAnswersTable, 1)) = 5

\* question 1 answered twice in one request: one row worth 2 points, a total
\* of 4
C29_WitnessRepeat ==
  /\ last.op = "submitQuizAnswers" /\ last.result = "ok" /\ last.id = 1
  /\ Len(last.answers) = 2
  /\ submissionsTable[1].points_earned = 4
  /\ StoredPoints(quizAnswersTable, AnswersOfSubmission(quizAnswersTable, 1)) = 2

(***************************************************************************)
(* The gradebook row against the submission.                               *)
(***************************************************************************)
\* every graded submission and every row of its pair that is not excused hold
\* the same points
GradebookFollowsSubmission(subs, entries) ==
  \A i \in 1..Len(subs) :
     subs[i].status = "graded" =>
        \A j \in EntriesOf(entries, subs[i].student_id, subs[i].assignment_id) :
           ~entries[j].is_excused => entries[j].points_earned = subs[i].points_earned

\* C30: in every state reached by createSubmission, gradeSubmission,
\* returnSubmissionForRevision, updateGradebookEntry and excuseAssignment, a
\* graded submission whose gradebook row is not excused has the points of
\* that row.
C30_EntryPointsMatchSubmission ==
  GradebookFollowsSubmission(submissionsTable, gradebookTable)

\* what the code keeps: only updateGradebookEntry makes the two differ
C30_OnlyUpdateEntryDiverges ==
  [][ ( /\ GradebookFollowsSubmission(submissionsTable, gradebookTable)
        /\ last'.op # "updateGradebookEntry" )
      => GradebookFollowsSubmission(submissionsTable', gradebookTable')
    ]_vars

\* graded with 7 points, then the row set to 1 point by updateGradebookEntry
C30_Witness ==
  /\ last.op = "updateGradebookEntry" /\ last.result = "ok"
  /\ last.student = 3 /\ last.points = 1
  /\ \E i \in 1..Len(submissionsTable) :
        /\ submissionsTable[i].student_id = 3
        /\ submissionsTable[i].status = "graded"
        /\ submissionsTable[i].points_earned = 7
  /\ \E j \in EntriesOf(gradebookTable, 3, 1) :
        ~gradebookTable[j].is_excused /\ gradebookTable[j].points_earned = 1

=============================================================================
